---- MODULE Spec2Model ----
(***************************************************************************)
(* Model of varial/toolinterface.py: Tool, ToolChain and its variants, and *)
(* the lifecycle that ToolChain._run_tool drives for every child.          *)
(*                                                                         *)
(* A chain tree is one of a few fixed trees (Trees).  Node 1 is the chain  *)
(* whose run() the program calls; the other nodes are its descendants.     *)
(* Every process p has its own memory mem[p] (the attributes of the node   *)
(* objects), its own call stack stack[p] (one frame per active _run_tool   *)
(* call) and its own pending exception exc[p].  The marker files (logs)    *)
(* and the ResultStore (store) are the disk, shared by all processes and   *)
(* kept from one program start to the next.                                *)
(***************************************************************************)
EXTENDS Integers, Sequences, FiniteSets, TLC

VARIABLES
    sc,                   \* which tree of Trees the program builds
    only_reload_results,  \* settings.only_reload_results
    run_no,               \* number of run() calls on node 1 so far
    logs,                 \* marker files that exist: <<tool, "log" | "res">>
    marker_text,          \* marker_text[f]: the lines of marker file f
    store,                \* store[t]: the ResultStore holds 'result' of tool t
    mem,                  \* mem[p]: the node objects' attributes in process p
    stack,                \* stack[p]: frames of the _run_tool calls in progress
    exc,                  \* exc[p]: the exception being raised in p (or NoExc)
    pstate,               \* pstate[p]: what process p is doing
    monitor_reset,        \* monitor.reset() has been called in this run
    ev,                   \* ev[n]: lifecycle methods invoked on n in this run
    start_reuse,          \* start_reuse[c]: c._reuse when c.run() was entered
    warm,                 \* this run is the first of a chain built with
                          \* default_reuse, and began with every cacheable
                          \* tool's marker (and result) on disk
    can_go_parallel,      \* what settings.can_go_parallel() returns
    max_num_processes,    \* settings.max_num_processes
    pool,                 \* pool[p]: the worker pool that process p has created
    parent,               \* parent[w]: the process whose pool worker w serves
    cpu_semaphore,        \* free permits of multiproc.cpu_semaphore
    kill_requested        \* the flag behind multiproc.is_kill_requested()

disk == <<logs, marker_text, store>>
par == <<pool, parent, cpu_semaphore, kill_requested>>
cfg == <<sc, can_go_parallel, max_num_processes>>
obs == <<ev, start_reuse, warm>>
vars == <<cfg, only_reload_results, run_no, disk, mem, stack, exc, pstate,
          monitor_reset, obs, par>>

----------------------------------------------------------------------------
(* Bounds *)

\* run() calls on node 1 in a behaviour of Spec, and of SpecPar
MaxRuns == 3
MaxParRuns == 2

----------------------------------------------------------------------------
(* The chain trees *)

Nodes == 1..7
Top == 1
Procs == 0..4
Main == 0

NoLazy == << <<>>, <<>>, <<>>, <<>>, <<>>, <<>>, <<>> >>

\* What a tool body may leave in self.result, and what it may raise.
\* none: None; empty: an empty list; wrapper: a Wrapper; list: a list of
\* Wrappers; raw: any other object that is true.
Results == {"none", "empty", "wrapper", "list", "raw"}
BodyErrors == {"ValueError", "IOError"}
AnyOutcome == Results \cup BodyErrors

\* kind: the class of the node; kids: the tools given to __init__;
\* lazy: what lazy_eval_tools_func returns (<<>>: no function);
\* can_reuse: the class attribute; name: the node's name;
\* body: how run() of the tool may end.
Trees == <<
    \* 1: a flat chain, cacheable / non-cacheable / cacheable
    [kind |-> <<"ToolChain", "Tool", "Tool", "Tool", "none", "none", "none">>,
     kids |-> << <<2, 3, 4>>, <<>>, <<>>, <<>>, <<>>, <<>>, <<>> >>,
     lazy |-> NoLazy,
     can_reuse |-> <<FALSE, TRUE, FALSE, TRUE, FALSE, FALSE, FALSE>>,
     name |-> <<"Pipeline", "A", "B", "C", "-", "-", "-">>,
     body |-> <<{}, AnyOutcome, AnyOutcome, AnyOutcome, {}, {}, {}>>],
    \* 2: a leaf three chains deep, the innermost a ToolChainIndie, and
    \* later siblings at two levels
    [kind |-> <<"ToolChain", "ToolChain", "ToolChainIndie", "Tool", "Tool", "Tool",
                "none">>,
     kids |-> << <<2, 6>>, <<3, 5>>, <<4>>, <<>>, <<>>, <<>>, <<>> >>,
     lazy |-> NoLazy,
     can_reuse |-> <<FALSE, FALSE, FALSE, TRUE, TRUE, TRUE, FALSE>>,
     name |-> <<"Main", "Root", "Sub", "Leaf", "D", "E", "-">>,
     body |-> <<{}, {}, {}, AnyOutcome, {"none", "wrapper", "IOError"},
                {"wrapper"}, {}>>],
    \* 3: a chain whose children come from lazy_eval_tools_func
    [kind |-> <<"ToolChain", "ToolChain", "Tool", "Tool", "Tool", "none", "none">>,
     kids |-> << <<2, 5>>, <<3>>, <<>>, <<>>, <<>>, <<>>, <<>> >>,
     lazy |-> << <<>>, <<4>>, <<>>, <<>>, <<>>, <<>>, <<>> >>,
     can_reuse |-> <<FALSE, FALSE, TRUE, FALSE, TRUE, FALSE, FALSE>>,
     name |-> <<"Main", "Lazy", "A", "B", "C", "-", "-">>,
     body |-> <<{}, {}, {"wrapper", "ValueError"}, {"none"}, {"wrapper"}, {}, {}>>],
    \* 4: a parallel chain of three tools
    [kind |-> <<"ToolChainParallel", "Tool", "Tool", "Tool", "none", "none", "none">>,
     kids |-> << <<2, 3, 4>>, <<>>, <<>>, <<>>, <<>>, <<>>, <<>> >>,
     lazy |-> NoLazy,
     can_reuse |-> <<FALSE, TRUE, TRUE, FALSE, FALSE, FALSE, FALSE>>,
     name |-> <<"Par", "X", "Y", "Z", "-", "-", "-">>,
     body |-> <<{}, {"wrapper", "ValueError"}, {"none", "ValueError"},
                {"wrapper"}, {}, {}, {}>>],
    \* 5: parallel chains below plain chains below a parallel chain
    [kind |-> <<"ToolChainParallel", "ToolChain", "ToolChain",
                "ToolChainParallel", "ToolChainParallel", "Tool", "Tool">>,
     kids |-> << <<2, 3>>, <<4>>, <<5>>, <<6>>, <<7>>, <<>>, <<>> >>,
     lazy |-> NoLazy,
     can_reuse |-> <<FALSE, FALSE, FALSE, FALSE, FALSE, TRUE, TRUE>>,
     name |-> <<"Par", "C1", "C2", "P1", "P2", "T1", "T2">>,
     body |-> <<{}, {}, {}, {}, {}, {"wrapper", "ValueError"}, {"wrapper"}>>],
    \* 6: an empty chain, and tools (some of one name) to add to it
    [kind |-> <<"ToolChain", "Tool", "Tool", "Tool", "Tool", "Tool", "Tool">>,
     kids |-> NoLazy,
     lazy |-> NoLazy,
     can_reuse |-> <<FALSE, TRUE, TRUE, TRUE, FALSE, TRUE, TRUE>>,
     name |-> <<"Chain", "X", "Y", "X", "Z", "Y", "W">>,
     body |-> <<{}, {"wrapper"}, {"wrapper"}, {"wrapper"}, {"wrapper"},
                {"wrapper"}, {"wrapper"}>>],
    \* 7: a ToolChainVanilla of two tools, and a tool after it
    [kind |-> <<"ToolChain", "ToolChainVanilla", "Tool", "Tool", "Tool", "none",
                "none">>,
     kids |-> << <<2, 5>>, <<3, 4>>, <<>>, <<>>, <<>>, <<>>, <<>> >>,
     lazy |-> NoLazy,
     can_reuse |-> <<FALSE, FALSE, FALSE, FALSE, FALSE, FALSE, FALSE>>,
     name |-> <<"Main", "Syst", "T1", "T2", "After", "-", "-">>,
     body |-> <<{}, {}, {"wrapper", "ValueError"}, {"wrapper"}, {"wrapper"},
                {}, {}>>],
    \* 8: a parallel chain that is a child of a parallel chain
    [kind |-> <<"ToolChainParallel", "ToolChainParallel", "Tool", "Tool", "Tool",
                "none", "none">>,
     kids |-> << <<2, 5>>, <<3, 4>>, <<>>, <<>>, <<>>, <<>>, <<>> >>,
     lazy |-> NoLazy,
     can_reuse |-> <<FALSE, FALSE, TRUE, TRUE, TRUE, FALSE, FALSE>>,
     name |-> <<"Par", "P1", "T1", "T2", "T3", "-", "-">>,
     body |-> <<{}, {}, {"wrapper"}, {"wrapper"}, {"wrapper"}, {}, {}>>],
    \* 9: a parallel chain of two cacheable tools and a non-cacheable tool
    [kind |-> <<"ToolChainParallel", "Tool", "Tool", "Tool", "none", "none", "none">>,
     kids |-> << <<2, 3, 4>>, <<>>, <<>>, <<>>, <<>>, <<>>, <<>> >>,
     lazy |-> NoLazy,
     can_reuse |-> <<FALSE, TRUE, TRUE, FALSE, FALSE, FALSE, FALSE>>,
     name |-> <<"Par", "X", "Y", "Z", "-", "-", "-">>,
     body |-> <<{}, {"wrapper", "ValueError"}, {"wrapper"}, {"wrapper"}, {}, {}, {}>>],
    \* 10: a parallel chain without children
    [kind |-> <<"ToolChainParallel", "none", "none", "none", "none", "none", "none">>,
     kids |-> NoLazy,
     lazy |-> NoLazy,
     can_reuse |-> <<FALSE, FALSE, FALSE, FALSE, FALSE, FALSE, FALSE>>,
     name |-> <<"Par", "-", "-", "-", "-", "-", "-">>,
     body |-> <<{}, {}, {}, {}, {}, {}, {}>>],
    \* 11: a parallel chain of one tool
    [kind |-> <<"ToolChainParallel", "Tool", "none", "none", "none", "none", "none">>,
     kids |-> << <<2>>, <<>>, <<>>, <<>>, <<>>, <<>>, <<>> >>,
     lazy |-> NoLazy,
     can_reuse |-> <<FALSE, TRUE, FALSE, FALSE, FALSE, FALSE, FALSE>>,
     name |-> <<"Par", "W", "-", "-", "-", "-", "-">>,
     body |-> <<{}, {"wrapper"}, {}, {}, {}, {}, {}>>]
>>

Tree == Trees[sc]
Kind(n) == Tree.kind[n]
can_reuse(n) == Tree.can_reuse[n]
Name(n) == Tree.name[n]
IsTool(n) == Kind(n) = "Tool"
IsChain(n) == Kind(n) \notin {"Tool", "none"}

----------------------------------------------------------------------------
(* ToolChain.add_tool / add_tools *)

\* A chain's two containers, and how the last add_tool call on it ended.
\* tool_names is a dict: a function from the names it holds to nodes.
EmptyDict == [k \in {} |-> 0]
EmptyChain == [tool_chain |-> <<>>, tool_names |-> EmptyDict, error |-> "none"]

DictSet(d, k, v) == [x \in (DOMAIN d) \cup {k} |-> IF x = k THEN v ELSE d[x]]

\* Faulty variant of add_tool: the name is not looked up before the insert.
add_tool_unchecked(ch, tool, nm, isToolBase) ==
    IF ~isToolBase
    THEN [ch EXCEPT !.error = "not_a_tool"]
    ELSE [tool_chain |-> Append(ch.tool_chain, tool),
          tool_names |-> DictSet(ch.tool_names, nm, tool),
          error |-> "none"]

add_tool(ch, tool, nm, isToolBase) ==
    IF ~isToolBase
    THEN [ch EXCEPT !.error = "not_a_tool"]
    ELSE IF nm \in DOMAIN ch.tool_names
    THEN [ch EXCEPT !.error = "duplicate"]
    ELSE [tool_chain |-> Append(ch.tool_chain, tool),
          tool_names |-> DictSet(ch.tool_names, nm, tool),
          error |-> "none"]

\* add_tools stops at the first add_tool that raises.
RECURSIVE add_tools(_, _)
add_tools(ch, tools) ==
    IF tools = <<>>
    THEN ch
    ELSE LET r == add_tool([ch EXCEPT !.error = "none"], Head(tools),
                           Name(Head(tools)), TRUE)
         IN  IF r.error # "none" THEN r ELSE add_tools(r, Tail(tools))

\* ToolChain.__init__: the chain after construction from its tools.
ToolChain_init(c) == add_tools(EmptyChain, Tree.kids[c])

\* The first lines of ToolChain.run(): children from lazy_eval_tools_func.
lazy_eval(ch, c) ==
    IF Tree.lazy[c] = <<>> THEN [ch EXCEPT !.error = "none"]
    ELSE add_tools(ch, Tree.lazy[c])

\* os.path.join(a, p) of a name and a relative path
path_join(a, p) == a \o "/" \o p

\* Tool.tool_paths and ToolChain.tool_paths, for the chains ch of a process
RECURSIVE tool_paths(_, _)
RECURSIVE tool_paths_of(_, _, _)
tool_paths(ch, n) ==
    IF IsTool(n) THEN <<Name(n)>>
    ELSE tool_paths_of(ch, Name(n), ch[n].tool_chain)
tool_paths_of(ch, nm, tools) ==
    IF tools = <<>> THEN <<>>
    ELSE [i \in DOMAIN tool_paths(ch, Head(tools)) |->
             path_join(nm, tool_paths(ch, Head(tools))[i])]
         \o tool_paths_of(ch, nm, Tail(tools))

----------------------------------------------------------------------------
(* Disk: marker files and the ResultStore *)

Markers == Nodes \X {"log", "res"}
NoMarkerText == [f \in Markers |-> <<>>]
logfile(t) == <<t, "log">>
logfile_res(t) == IF can_reuse(t) THEN <<t, "res">> ELSE logfile(t)

io_exists(t) == store[t]
io_get(t) == IF store[t] THEN "wrapper" ELSE "none"

\* wrappers.WrapperWrapper(r) returns a Wrapper; otherwise it raises TypeError.
WrapperWrapper_accepts(r) == r = "list"
\* The list / tuple conversion in Tool.finished
Wrapped(r) ==
    IF r \in {"list", "empty"} /\ WrapperWrapper_accepts(r) THEN "wrapper" ELSE r
IsWrapper(r) == r = "wrapper"
Truthy(r) == r \notin {"none", "empty"}

----------------------------------------------------------------------------
(* Reuse decision *)

\* Faulty variant of _ToolBase.wanna_reuse: the chain's flag is ignored.
wanna_reuse_ignoring_flag(t, all_reused_before_me) == can_reuse(t)

\* Faulty variant of _ToolBase.wanna_reuse: can_reuse is ignored.
wanna_reuse_ignoring_can_reuse(t, all_reused_before_me) == all_reused_before_me

ToolBase_wanna_reuse(t, all_reused_before_me) ==
    can_reuse(t) /\ all_reused_before_me

\* Faulty variant of Tool.wanna_reuse: the ResultStore is not asked.
Tool_wanna_reuse_no_store(t, all_reused_before_me) ==
    IF ToolBase_wanna_reuse(t, all_reused_before_me)
    THEN logfile(t) \in logs \/ logfile_res(t) \in logs
    ELSE FALSE

Tool_wanna_reuse(t, all_reused_before_me) ==
    IF ToolBase_wanna_reuse(t, all_reused_before_me)
    THEN \/ logfile(t) \in logs
         \/ (logfile_res(t) \in logs /\ io_exists(t))
    ELSE FALSE

wanna_reuse(t, all_reused_before_me) ==
    IF IsTool(t) THEN Tool_wanna_reuse(t, all_reused_before_me)
    ELSE ToolBase_wanna_reuse(t, all_reused_before_me)

\* Every cacheable tool of the tree has left its marker (and its result).
AllCached ==
    \A t \in Nodes : IsTool(t) /\ can_reuse(t) => Tool_wanna_reuse(t, TRUE)

\* Faulty variants of flag_after_no_reuse: the flag is never cleared, and
\* the flag is cleared by every child that is not reused.
flag_kept(t, flag) == flag
flag_cleared(t, flag) == FALSE

\* ToolChain._run_tool, the branch taken when the child is not reused:
\* the chain's flag after it.
flag_after_no_reuse(t, flag) == IF can_reuse(t) THEN FALSE ELSE flag

\* Faulty variant of reload_only_abort: the setting is not consulted.
no_reload_only_abort(t) == FALSE

\* ToolChain._run_tool: does the reload-only setting abort the run here?
reload_only_abort(t) == can_reuse(t) /\ only_reload_results

----------------------------------------------------------------------------
(* Exceptions and their annotation *)

NoExc == [etype |-> "none", otype |-> "none", cause |-> "none",
          origin |-> 0, notes |-> <<>>]
NewExc(type, why, t) == [etype |-> type, otype |-> type, cause |-> why,
                         origin |-> t, notes |-> <<>>]

\* analysis.cwd: the names of the entered nodes, each followed by "/".
RECURSIVE Cwd(_)
Cwd(ts) == IF ts = <<>> THEN <<>>
           ELSE <<Name(Head(ts)), "/">> \o Cwd(Tail(ts))
\* cwd[:-1]
DropLast(s) == SubSeq(s, 1, Len(s) - 1)
RECURSIVE Str(_)
Str(s) == IF s = <<>> THEN "" ELSE Head(s) \o Str(Tail(s))

\* Tool.__init__: self.cwd, self.logfile and self.logfile_res are None.
NoRefs == [cwd |-> "None", logfile |-> "None", logfile_res |-> "None"]

\* Tool.__enter__ after the push: self.cwd = analysis.cwd, and the two
\* marker paths below it.
Tool_enter_refs(ts, t) ==
    LET cwd == Str(Cwd(ts))
        log == cwd \o Name(t) \o ".log"
    IN  [cwd |-> cwd,
         logfile |-> log,
         logfile_res |-> IF can_reuse(t)
                         THEN cwd \o Name(t) \o " (result available).log"
                         ELSE log]

\* Faulty variant of Tool_exit_refs: the references are left as they are.
Tool_exit_refs_kept(r) == r

\* Tool.__exit__: the three references are set to None.
Tool_exit_refs(r) == NoRefs

\* Faulty variant of annotate: every chain on the way adds its own note.
annotate_always(e, ts, t) ==
    [e EXCEPT !.notes = Append(@, [path |-> Str(DropLast(Cwd(ts))),
                                   kind |-> Kind(t)])]

\* The except clause of ToolChain._run_tool.
annotate(e, ts, t) ==
    IF e.notes = <<>>
    THEN [e EXCEPT !.notes = <<[path |-> Str(DropLast(Cwd(ts))),
                                kind |-> Kind(t)]>>]
    ELSE e

----------------------------------------------------------------------------
(* The analysis module's namespace, and ToolChainVanilla's copy of it *)

\* A binding of analysis.__dict__ holds an object: id tells objects apart
\* (two bindings of one id are one object), val is what the object holds,
\* type is what inspect.ismodule / callable see.  Unbound: the name is not in
\* the namespace.
Obj(id, val, type) == [id |-> id, val |-> val, type |-> type]
Unbound == Obj("none", 0, "none")

AnalysisKeys == {"fs_samples", "fs_aliases", "_cache", "results_base", "settings"}

\* The namespace when the program starts.
InitialAnalysis ==
    [k \in AnalysisKeys |->
        CASE k = "fs_samples" -> Obj("orig", 0, "data")
          [] k = "fs_aliases" -> Unbound
          [] k = "_cache" -> Obj("orig", 0, "data")
          [] k = "results_base" -> Obj("orig", 0, "data")
          [] k = "settings" -> Obj("orig", 0, "module")]
\* del d[k]
DictDel(d, k) == [x \in (DOMAIN d) \ {k} |-> d[x]]

IsPrivate(key) == key \in {"_cache"}

\* The condition of ToolChainVanilla.__enter__: this binding is kept as it
\* is, not copied.
Excluded(key, v) ==
    \/ IsPrivate(key)
    \/ key = "results_base"
    \/ key = "current_result"
    \/ v.type = "module"
    \/ v.type = "callable"

\* Faulty variant of deepish_copy: the object itself is handed back.
no_copy(v) == v

\* util.deepish_copy: a new object that holds what v holds.
deepish_copy(v) == [v EXCEPT !.id = IF v.id = "copy" THEN "copy2" ELSE "copy"]

\* old_analysis_data as ToolChainVanilla.__enter__ builds it.
Vanilla_snapshot(a) ==
    [k \in AnalysisKeys |->
        IF a[k] = Unbound THEN Unbound
        ELSE IF ~Excluded(k, a[k]) THEN deepish_copy(a[k])
        ELSE a[k]]

\* Faulty variant of Vanilla_restore: update() without clear().
Vanilla_restore_no_clear(a, old) ==
    [k \in AnalysisKeys |-> IF old[k] # Unbound THEN old[k] ELSE a[k]]

\* analysis.__dict__.clear(); analysis.__dict__.update(old)
Vanilla_restore(a, old) == old

\* The calls made for the ToolChainVanilla entered last, in their order.
Call(name, node) == [call |-> name, node |-> node]
Called(m, name, node) == [m EXCEPT !.calls = Append(@, Call(name, node))]

Vanilla_enter(m, t) ==
    [m EXCEPT !.old_analysis_data = DictSet(@, t, Vanilla_snapshot(m.analysis)),
              !.calls = <<Call("snapshot", t)>>]

\* reset() of a Tool (util.ResettableType): the attributes are as they were
\* after construction.
Tool_reset(m, t) ==
    Called([m EXCEPT !.result[t] = "none", !.time_start[t] = "none"], "reset", t)

\* ToolChain.reset(): for t in self.tool_chain: t.reset()
RECURSIVE reset(_, _)
RECURSIVE reset_each(_, _)
reset(m, t) ==
    IF IsTool(t) THEN Tool_reset(m, t) ELSE reset_each(m, m.ch[t].tool_chain)
reset_each(m, ts) ==
    IF ts = <<>> THEN m ELSE reset_each(reset(m, Head(ts)), Tail(ts))

\* Faulty variant of Vanilla_starting: the tools are reset first.
Vanilla_starting_reset_first(m, t) ==
    Called(reset(m, t), "prepare_for_systematic", t)

\* ToolChainVanilla.starting(): prepare_for_systematic(), then self.reset()
Vanilla_starting(m, t) ==
    reset(Called(m, "prepare_for_systematic", t), t)

\* ToolChainVanilla.finished(): finish_with_systematic() comes first.
Vanilla_finished(m, t) == Called(m, "finish_with_systematic", t)

Vanilla_exit(m, t) ==
    [m EXCEPT !.analysis = Vanilla_restore(m.analysis, m.old_analysis_data[t]),
              !.old_analysis_data = DictDel(@, t),
              !.calls = Append(@, Call("restore", t))]

\* What a tool body may do to a name of the namespace.
TouchOps == {"mutate", "rebind", "del"}

\* The object of binding k is changed in place: every holder of the object
\* (a snapshot that kept the reference) sees the change.
MutateInPlace(m, k) ==
    LET id == m.analysis[k].id
        hit(v) == IF v.id = id THEN [v EXCEPT !.val = 1] ELSE v
    IN  [m EXCEPT !.analysis[k] = hit(@),
                  !.old_analysis_data =
                      [n \in DOMAIN @ |-> [@[n] EXCEPT ![k] = hit(@)]]]

Touched(m, k, op) ==
    CASE op = "mutate" -> MutateInPlace(m, k)
      [] op = "rebind" -> [m EXCEPT !.analysis[k] = Obj("new", 1, "data")]
      [] op = "del" -> [m EXCEPT !.analysis[k] = Unbound]

----------------------------------------------------------------------------
(* Processes *)

NoEvents == [n \in Nodes |-> {}]

\* The node objects right after the program has built the tree.
Construct(default_reuse) ==
    [reuse |-> [n \in Nodes |-> n = Top /\ default_reuse],
     outer_reuse |-> [n \in Nodes |-> FALSE],
     result |-> [n \in Nodes |-> "none"],
     time_start |-> [n \in Nodes |-> "none"],
     ch |-> [n \in Nodes |-> IF IsChain(n) THEN ToolChain_init(n)
                             ELSE EmptyChain],
     tool_stack |-> <<>>,
     refs |-> [n \in Nodes |-> NoRefs],
     calls |-> <<>>,
     analysis |-> InitialAnalysis,
     old_analysis_data |-> EmptyDict]

\* A frame is one call of chain c's _run_tool for its i-th child, at place ph.
\* The frame with c = 0 is the program's own call of run() on node 1.
Frame(c, i, ph) == [c |-> c, i |-> i, ph |-> ph]
TopFrame(p) == stack[p][Len(stack[p])]
FrameTool(p, f) == IF f.c = 0 THEN Top ELSE mem[p].ch[f.c].tool_chain[f.i]
CurTool(p) == FrameTool(p, TopFrame(p))
Running(p) == pstate[p] = "running" /\ stack[p] # <<>>
At(p, ph) == Running(p) /\ TopFrame(p).ph = ph
\* Faulty variant of SetPh: an exception that leaves run() is dropped and
\* finished() is called.
SetPh_swallow(p, ph) ==
    [stack EXCEPT ![p][Len(stack[p])].ph = IF ph = "caught" THEN "finish" ELSE ph]

SetPh(p, ph) == [stack EXCEPT ![p][Len(stack[p])].ph = ph]
Mark(t, e) == [ev EXCEPT ![t] = @ \cup {e}]

\* multiproc.cpu_semaphore starts with one permit per configured process.
cpu_semaphore_init == max_num_processes

NoPool == [chain |-> 0, my_path |-> "", tasks |-> <<>>, results |-> <<>>,
           n |-> 0, got |-> 0]

InitWith(trees, parallel, maxes) ==
    /\ sc \in trees
    /\ only_reload_results \in BOOLEAN
    /\ can_go_parallel = parallel
    /\ max_num_processes \in maxes
    /\ run_no = 0
    /\ logs = {}
    /\ marker_text = NoMarkerText
    /\ store = [n \in Nodes |-> FALSE]
    /\ \E default_reuse \in BOOLEAN :
          mem = [p \in Procs |-> Construct(default_reuse)]
    /\ stack = [p \in Procs |-> <<>>]
    /\ exc = [p \in Procs |-> NoExc]
    /\ pstate = [p \in Procs |-> IF p = Main THEN "ready" ELSE "unborn"]
    /\ monitor_reset = FALSE
    /\ ev = NoEvents
    /\ start_reuse = [n \in Nodes |-> FALSE]
    /\ warm = FALSE
    /\ pool = [p \in Procs |-> NoPool]
    /\ parent = [p \in Procs |-> Main]
    /\ cpu_semaphore = cpu_semaphore_init
    /\ kill_requested = FALSE

\* The program calls run() on the chain it built (node 1); fresh: the chain
\* has not run since it was constructed.
BeginRun(fresh) ==
    /\ run_no' = run_no + 1
    /\ ev' = NoEvents
    /\ monitor_reset' = FALSE
    /\ start_reuse' = [n \in Nodes |-> FALSE]
    /\ warm' = (fresh /\ mem[Main].reuse[Top] /\ AllCached)
    /\ exc' = [exc EXCEPT ![Main] = NoExc]
    /\ pstate' = [pstate EXCEPT ![Main] = "running"]
    /\ stack' = [stack EXCEPT ![Main] = <<Frame(0, 1, "run")>>]
    /\ UNCHANGED <<cfg, only_reload_results, disk, mem, par>>

StartRun ==
    /\ pstate[Main] = "ready"
    /\ BeginRun(TRUE)

\* The program is started again: the tree is built anew and the settings
\* are read anew, the disk is kept.
Restart ==
    /\ pstate[Main] \in {"done", "failed", "killed"}
    /\ \E default_reuse \in BOOLEAN :
          mem' = [p \in Procs |-> Construct(default_reuse)]
    /\ pstate' = [pstate EXCEPT ![Main] = "ready"]
    /\ exc' = [exc EXCEPT ![Main] = NoExc]
    /\ cpu_semaphore' = cpu_semaphore_init
    /\ kill_requested' = FALSE
    /\ only_reload_results' \in BOOLEAN
    /\ ev' = NoEvents
    /\ monitor_reset' = FALSE
    /\ start_reuse' = [n \in Nodes |-> FALSE]
    /\ warm' = FALSE
    /\ UNCHANGED <<cfg, run_no, disk, stack, pool, parent>>

NewProcess ==
    /\ run_no < MaxRuns
    /\ Restart

NewProcessPar ==
    /\ run_no < MaxParRuns
    /\ Restart

\* The program calls run() on the same chain object once more.
RunAgain ==
    /\ pstate[Main] = "done"
    /\ run_no < MaxRuns
    /\ BeginRun(FALSE)

\* run() of node 1 has returned to the program.
ProgramReturn ==
    /\ At(Main, "finish")
    /\ TopFrame(Main).c = 0
    /\ pstate' = [pstate EXCEPT ![Main] = "done"]
    /\ stack' = [stack EXCEPT ![Main] = <<>>]
    /\ UNCHANGED <<cfg, only_reload_results, run_no, disk, mem, exc, monitor_reset, obs, par>>

\* An exception has left run() of node 1: it reaches the caller as it is.
ProgramRaise ==
    /\ At(Main, "caught")
    /\ TopFrame(Main).c = 0
    /\ pstate' = [pstate EXCEPT ![Main] = "failed"]
    /\ stack' = [stack EXCEPT ![Main] = <<>>]
    /\ UNCHANGED <<cfg, only_reload_results, run_no, disk, mem, exc, monitor_reset, obs, par>>

----------------------------------------------------------------------------
(* ToolChain._run_tool, one step at a time *)

\* with tool as t: __enter__ pushes the node on analysis._tool_stack.
Enter(p) ==
    /\ At(p, "call")
    /\ LET t == CurTool(p)
           stacked == Append(mem[p].tool_stack, t)
           pushed == [mem[p] EXCEPT
                        !.tool_stack = stacked,
                        !.refs[t] = IF IsTool(t) THEN Tool_enter_refs(stacked, t)
                                    ELSE @]
       IN  /\ mem' = [mem EXCEPT ![p] =
                        IF Kind(t) = "ToolChainVanilla"
                        THEN Vanilla_enter(pushed, t)
                        ELSE IF TopFrame(p).c # 0
                                /\ Kind(TopFrame(p).c) = "ToolChainVanilla"
                        THEN Called(pushed, "_run_tool", t)
                        ELSE pushed]
           /\ ev' = Mark(t, "enter")
    /\ stack' = SetPh(p, "entered")
    /\ UNCHANGED <<cfg, only_reload_results, run_no, disk, exc, pstate, monitor_reset,
                   start_reuse, warm, par>>

\* if tool.wanna_reuse(self._reuse): ... elif tool.can_reuse: ...
\* t._reuse = self._reuse
Decide(p) ==
    /\ At(p, "entered")
    /\ LET f == TopFrame(p)
           t == CurTool(p)
           flag == mem[p].reuse[f.c]
       IN  /\ ev' = Mark(t, "wanna_reuse")
           /\ IF wanna_reuse(t, flag)
              THEN /\ stack' = SetPh(p, "reuse")
                   /\ UNCHANGED <<mem, exc, monitor_reset>>
              ELSE IF reload_only_abort(t)
              THEN /\ monitor_reset' = TRUE
                   /\ exc' = [exc EXCEPT ![p] = NewExc("RuntimeError", "reload_only", t)]
                   /\ stack' = SetPh(p, "raise")
                   /\ UNCHANGED mem
              ELSE /\ mem' = [mem EXCEPT
                                ![p].reuse[f.c] = flag_after_no_reuse(t, flag),
                                ![p].reuse[t] = flag_after_no_reuse(t, flag)]
                   /\ stack' = SetPh(p, "starting")
                   /\ UNCHANGED <<exc, monitor_reset>>
    /\ UNCHANGED <<cfg, only_reload_results, run_no, disk, pstate, start_reuse, warm, par>>

\* Tool.reuse(): self.result = self.io.get('result')
Reuse(p) ==
    /\ At(p, "reuse")
    /\ LET t == CurTool(p)
       IN  /\ mem' = [mem EXCEPT ![p].result[t] = io_get(t)]
           /\ ev' = Mark(t, "reuse")
    /\ stack' = SetPh(p, "exit")
    /\ UNCHANGED <<cfg, only_reload_results, run_no, disk, exc, pstate, monitor_reset,
                   start_reuse, warm, par>>

\* Faulty variant of Tool.starting(): only the 'no result' marker is removed.
Tool_starting_log_only(t) == logs \ {logfile(t)}

\* Tool.starting(): the markers of an earlier run are removed.
Tool_starting(t) == logs \ {logfile(t), logfile_res(t)}

\* ToolChainIndie.starting(): the flag is saved and forced to true.
Indie_starting(m, t) ==
    [m EXCEPT !.outer_reuse[t] = m.reuse[t], !.reuse[t] = TRUE]

Starting(p) ==
    /\ At(p, "starting")
    /\ LET t == CurTool(p)
       IN  /\ logs' = IF IsTool(t) THEN Tool_starting(t) ELSE logs
           /\ marker_text' = [f \in Markers |-> IF f \in logs'
                                                 THEN marker_text[f] ELSE <<>>]
           /\ mem' = IF Kind(t) = "ToolChainIndie"
                     THEN [mem EXCEPT ![p] = Indie_starting(@, t)]
                     ELSE IF Kind(t) = "ToolChainVanilla"
                     THEN [mem EXCEPT ![p] = Vanilla_starting(@, t)]
                     ELSE IF IsTool(t)
                     THEN [mem EXCEPT ![p].time_start[t] = "time_start"]
                     ELSE mem
           /\ ev' = Mark(t, "starting")
    /\ stack' = SetPh(p, "run")
    /\ UNCHANGED <<cfg, only_reload_results, run_no, store, exc, pstate, monitor_reset,
                   start_reuse, warm, par>>

\* t.run() of a Tool: the body either leaves a result or raises.
RunTool(p) ==
    /\ At(p, "run")
    /\ IsTool(CurTool(p))
    /\ LET t == CurTool(p)
       IN  /\ ev' = Mark(t, "run")
           /\ \/ \E r \in Tree.body[t] \cap Results :
                    /\ mem' = [mem EXCEPT ![p].result[t] = r]
                    /\ stack' = SetPh(p, "finish")
                    /\ UNCHANGED exc
              \/ \E e \in Tree.body[t] \cap BodyErrors :
                    /\ exc' = [exc EXCEPT ![p] = NewExc(e, "body", t)]
                    /\ stack' = SetPh(p, "caught")
                    /\ UNCHANGED mem
    /\ UNCHANGED <<cfg, only_reload_results, run_no, disk, pstate, monitor_reset, start_reuse, warm, par>>

\* Does run() of chain t hand its children to a pool?
GoesParallel(t) == Kind(t) = "ToolChainParallel" /\ can_go_parallel

\* self._run_tool(tool) of a ToolChainParallel begins with the question
\* whether to take a permit; ToolChain._run_tool begins with `with tool`.
call_phase(c) == IF Kind(c) = "ToolChainParallel" THEN "sem" ELSE "call"

\* t.run() of a chain: ToolChain.run() up to the first child.
RunChain(p) ==
    /\ At(p, "run")
    /\ IsChain(CurTool(p))
    /\ ~GoesParallel(CurTool(p))
    /\ LET t == CurTool(p)
           ch == lazy_eval(mem[p].ch[t], t)
       IN  /\ ev' = Mark(t, "run")
           /\ mem' = [mem EXCEPT ![p].ch[t] = ch]
           /\ start_reuse' = [start_reuse EXCEPT ![t] = mem[p].reuse[t]]
           /\ IF ch.error # "none"
              THEN /\ exc' = [exc EXCEPT ![p] = NewExc("RuntimeError", "duplicate", t)]
                   /\ stack' = SetPh(p, "caught")
              ELSE IF ch.tool_chain = <<>>
              THEN /\ stack' = SetPh(p, "finish")
                   /\ UNCHANGED exc
              ELSE /\ stack' = [stack EXCEPT ![p] =
                                  Append(SetPh(p, "running")[p],
                                         Frame(t, 1, call_phase(t)))]
                   /\ UNCHANGED exc
    /\ UNCHANGED <<cfg, only_reload_results, run_no, disk, pstate, monitor_reset,
                   warm, par>>

\* except: annotate once, then raise etype, evalue, etb
Caught(p) ==
    /\ At(p, "caught")
    /\ TopFrame(p).c # 0
    /\ exc' = [exc EXCEPT ![p] = annotate(@, mem[p].tool_stack, CurTool(p))]
    /\ stack' = SetPh(p, "raise")
    /\ UNCHANGED <<cfg, only_reload_results, run_no, disk, mem, pstate, monitor_reset, obs, par>>

\* Tool.finished(): the result is stored if it is a Wrapper, and one marker
\* is written.
Tool_finished_result(r) == Wrapped(r)
\* Faulty variant of Tool_finished_writes: whatever the result is, it is
\* written.
Tool_finished_writes_always(r) == TRUE

\* Does Tool.finished() call io.write?
Tool_finished_writes(r) == IsWrapper(r)
Tool_finished_store(t, r) ==
    IF Tool_finished_writes(r) THEN [store EXCEPT ![t] = TRUE] ELSE store
\* Faulty variant of Tool_finished_marker: the result is not looked at.
Tool_finished_marker_res(t, r) == logfile_res(t)

Tool_finished_marker(t, r) == IF Truthy(r) THEN logfile_res(t) ELSE logfile(t)
\* f.write(self.time_start); f.write(self.time_fin)
Tool_finished_lines(time_start) == <<time_start, "time_fin">>

\* Faulty variant of Indie_finished: the saved flag is not put back.
Indie_finished_forgets(m, t) == m

\* ToolChainIndie.finished(): the saved flag is put back.
Indie_finished(m, t) ==
    [m EXCEPT !.reuse[t] = m.outer_reuse[t], !.outer_reuse[t] = FALSE]

\* Faulty variant of flag_after_finished: the chain keeps its own flag.
flag_after_finished_own(own, childs) == own

\* self._reuse = t._reuse
flag_after_finished(own, childs) == childs

\* t.finished(), then self._reuse = t._reuse
Finished(p) ==
    /\ At(p, "finish")
    /\ TopFrame(p).c # 0
    /\ LET f == TopFrame(p)
           t == CurTool(p)
           r == Tool_finished_result(mem[p].result[t])
           m1 == IF IsTool(t) THEN [mem[p] EXCEPT !.result[t] = r]
                 ELSE IF Kind(t) = "ToolChainIndie" THEN Indie_finished(mem[p], t)
                 ELSE IF Kind(t) = "ToolChainVanilla" THEN Vanilla_finished(mem[p], t)
                 ELSE mem[p]
       IN  /\ store' = IF IsTool(t) THEN Tool_finished_store(t, r) ELSE store
           /\ logs' = IF IsTool(t) THEN logs \cup {Tool_finished_marker(t, r)}
                      ELSE logs
           /\ marker_text' =
                 IF IsTool(t)
                 THEN [marker_text EXCEPT ![Tool_finished_marker(t, r)] =
                          Tool_finished_lines(mem[p].time_start[t])]
                 ELSE marker_text
           /\ mem' = [mem EXCEPT ![p] =
                        [m1 EXCEPT !.reuse[f.c] =
                            flag_after_finished(m1.reuse[f.c], m1.reuse[t])]]
           /\ ev' = [ev EXCEPT ![t] =
                        @ \cup IF IsTool(t) /\ Tool_finished_writes(r)
                               THEN {"finished", "write"} ELSE {"finished"}]
    /\ stack' = SetPh(p, "exit")
    /\ UNCHANGED <<cfg, only_reload_results, run_no, exc, pstate, monitor_reset, start_reuse, warm, par>>

\* Faulty variant of UsesSemaphore: the setting is not looked at.
UsesSemaphore_whatever_setting(t) == ~(Kind(t) = "ToolChainParallel")

\* Faulty variant of UsesSemaphore: no call takes a permit.
UsesSemaphore_never(t) == FALSE

\* Does the worker's call of ToolChainParallel._run_tool hold a permit?
UsesSemaphore(t) == ~(Kind(t) = "ToolChainParallel" \/ ~can_go_parallel)

\* Was the call of _run_tool that p is about to leave made with a permit?
HoldsPermit(p) ==
    /\ TopFrame(p).c # 0
    /\ Kind(TopFrame(p).c) = "ToolChainParallel"
    /\ UsesSemaphore(CurTool(p))

\* __exit__: ToolChainVanilla puts the namespace back, then the node is
\* popped from analysis._tool_stack.
ToolBase_exit(m, t) ==
    LET restored == IF Kind(t) = "ToolChainVanilla" THEN Vanilla_exit(m, t)
                    ELSE m
    IN  [restored EXCEPT !.tool_stack = DropLast(@),
                         !.refs[t] = IF IsTool(t) THEN Tool_exit_refs(@) ELSE @]

\* Faulty variant of Returned: the loop of run() takes the same child again.
Returned_again(p) ==
    LET s == stack[p]
        f == s[Len(s)]
        below == SubSeq(s, 1, Len(s) - 1)
    IN  IF below = <<>> THEN <<Frame(f.c, f.i, "return_ok")>>
        ELSE Append(below, Frame(f.c, f.i, "call"))

\* The stack after _run_tool has returned: to the loop of ToolChain.run(),
\* or (a worker's only frame) to _run_tool_in_worker.
Returned(p) ==
    LET s == stack[p]
        f == s[Len(s)]
        below == SubSeq(s, 1, Len(s) - 1)
    IN  IF below = <<>> THEN <<Frame(f.c, f.i, "return_ok")>>
        ELSE IF f.i < Len(mem[p].ch[f.c].tool_chain)
        THEN Append(below, Frame(f.c, f.i + 1, call_phase(f.c)))
        ELSE [below EXCEPT ![Len(below)].ph = "finish"]

\* __exit__ after reuse() or finished(), and the next iteration of run().
Exit(p) ==
    /\ At(p, "exit")
    /\ mem' = [mem EXCEPT ![p] = ToolBase_exit(@, CurTool(p))]
    /\ ev' = Mark(CurTool(p), "exit")
    /\ stack' = [stack EXCEPT ![p] = Returned(p)]
    /\ cpu_semaphore' = IF HoldsPermit(p) THEN cpu_semaphore + 1 ELSE cpu_semaphore
    /\ UNCHANGED <<cfg, only_reload_results, run_no, disk, exc, pstate, monitor_reset, start_reuse, warm,
                   pool, parent, kill_requested>>

\* Faulty variant of Unwound: the loop of run() goes on with the next child.
Unwound_swallowed(p) == Returned(p)

\* The stack after an exception has left _run_tool and run().
Unwound(p) ==
    LET s == stack[p]
        f == s[Len(s)]
        below == SubSeq(s, 1, Len(s) - 1)
    IN  IF below = <<>> THEN <<Frame(f.c, f.i, "except")>>
        ELSE [below EXCEPT ![Len(below)].ph = "caught"]

\* __exit__ with an exception in flight: it leaves run() of the chain too.
ExitRaise(p) ==
    /\ At(p, "raise")
    /\ mem' = [mem EXCEPT ![p] = ToolBase_exit(@, CurTool(p))]
    /\ ev' = [ev EXCEPT ![CurTool(p)] = @ \cup {"raise", "exit"}]
    /\ stack' = [stack EXCEPT ![p] = Unwound(p)]
    /\ cpu_semaphore' = IF HoldsPermit(p) THEN cpu_semaphore + 1 ELSE cpu_semaphore
    /\ UNCHANGED <<cfg, only_reload_results, run_no, disk, exc, pstate, monitor_reset, start_reuse, warm,
                   pool, parent, kill_requested>>

\* Is a ToolChainVanilla among the entered nodes of process p?
InVanilla(p) ==
    \E i \in 1..Len(mem[p].tool_stack) :
        Kind(mem[p].tool_stack[i]) = "ToolChainVanilla"

\* The body of a tool that runs below a ToolChainVanilla changes a name of
\* the analysis namespace: the object in place, the binding, or it deletes
\* the name.
Touch(p) ==
    /\ At(p, "run")
    /\ IsTool(CurTool(p))
    /\ InVanilla(p)
    /\ \E k \in AnalysisKeys, op \in TouchOps :
          LET v == mem[p].analysis[k]
          IN  /\ op = "mutate" => v # Unbound /\ v.val = 0
              /\ op = "rebind" => v.id # "new"
              /\ op = "del" => v # Unbound
              /\ mem' = [mem EXCEPT ![p] = Touched(@, k, op)]
    /\ UNCHANGED <<cfg, only_reload_results, run_no, disk, stack, exc, pstate,
                   monitor_reset, obs, par>>

\* prepare_for_systematic() in starting(), or finish_with_systematic() in
\* finished(), raises: both are called outside the try of _run_tool.
HookRaise(p) ==
    /\ At(p, "starting") \/ At(p, "finish")
    /\ TopFrame(p).c # 0
    /\ Kind(CurTool(p)) = "ToolChainVanilla"
    /\ exc' = [exc EXCEPT ![p] = NewExc("RuntimeError", "hook", CurTool(p))]
    /\ mem' = [mem EXCEPT ![p] =
                 Called(@, IF At(p, "starting") THEN "prepare_for_systematic"
                           ELSE "finish_with_systematic", CurTool(p))]
    /\ stack' = SetPh(p, "raise")
    /\ UNCHANGED <<cfg, only_reload_results, run_no, disk, pstate,
                   monitor_reset, obs, par>>

----------------------------------------------------------------------------
(* ToolChainParallel.run() and _run_tool_in_worker *)

Min(a, b) == IF a < b THEN a ELSE b
Unborn == {w \in Procs : pstate[w] = "unborn"}
\* The k unborn processes with the lowest numbers.
RECURSIVE Lowest(_, _)
Lowest(S, k) ==
    IF k = 0 \/ S = {} THEN {}
    ELSE LET w == CHOOSE x \in S : \A y \in S : x <= y
         IN  {w} \cup Lowest(S \ {w}, k - 1)

\* n_workers = min(n_tools, settings.max_num_processes)
n_workers(n_tools) == Min(n_tools, max_num_processes)

\* my_path = "/".join(t.name for t in analysis._tool_stack)
RECURSIVE my_path(_)
my_path(ts) ==
    IF ts = <<>> THEN ""
    ELSE IF Len(ts) = 1 THEN Name(ts[1])
    ELSE Name(Head(ts)) \o "/" \o my_path(Tail(ts))

\* Faulty variant of tool_index_list: the last child is left out.
tool_index_short(path, n_tools) == [k \in 1..(n_tools - 1) |-> <<path, k - 1>>]

\* Faulty variant of tool_index_list: every task names the first child.
tool_index_first(path, n_tools) == [k \in 1..n_tools |-> <<path, 0>>]

\* tool_index_list = list((my_path, i) for i in xrange(n_tools))
tool_index_list(path, n_tools) == [k \in 1..n_tools |-> <<path, k - 1>>]

\* t.run() of a ToolChainParallel when settings.can_go_parallel():
\* the pool is created, its workers are forked with this process's memory.
RunParallel(p) ==
    /\ At(p, "run")
    /\ GoesParallel(CurTool(p))
    /\ LET t == CurTool(p)
           ch == lazy_eval(mem[p].ch[t], t)
           n_tools == Len(ch.tool_chain)
           W == Lowest(Unborn, n_workers(n_tools))
           m == [mem[p] EXCEPT !.ch[t] = ch]
       IN  /\ ev' = Mark(t, "run")
           /\ start_reuse' = [start_reuse EXCEPT ![t] = mem[p].reuse[t]]
           /\ IF ch.error # "none"
              THEN /\ exc' = [exc EXCEPT ![p] = NewExc("RuntimeError", "duplicate", t)]
                   /\ stack' = SetPh(p, "caught")
                   /\ mem' = [mem EXCEPT ![p] = m]
                   /\ UNCHANGED <<pstate, pool, parent>>
              ELSE IF ch.tool_chain = <<>>
              THEN /\ stack' = SetPh(p, "finish")
                   /\ mem' = [mem EXCEPT ![p] = m]
                   /\ UNCHANGED <<exc, pstate, pool, parent>>
              ELSE /\ Cardinality(W) = n_workers(n_tools)
                   /\ stack' = SetPh(p, "drain")
                   /\ mem' = [w \in Procs |-> IF w \in W \/ w = p THEN m ELSE mem[w]]
                   /\ pstate' = [w \in Procs |-> IF w \in W THEN "idle" ELSE pstate[w]]
                   /\ parent' = [w \in Procs |-> IF w \in W THEN p ELSE parent[w]]
                   /\ pool' = [pool EXCEPT ![p] =
                                 [chain |-> t, my_path |-> my_path(mem[p].tool_stack),
                                  tasks |-> tool_index_list(my_path(mem[p].tool_stack),
                                                           n_tools),
                                  results |-> <<>>, n |-> n_tools, got |-> 0]]
                   /\ UNCHANGED exc
    /\ UNCHANGED <<cfg, only_reload_results, run_no, disk, monitor_reset, warm,
                   cpu_semaphore, kill_requested>>

\* An idle worker takes the next (chain_path, tool_index) from its pool:
\* tool = chain.tool_chain[tool_index], counted from 0.
WorkerTake(w) ==
    /\ pstate[w] = "idle"
    /\ pool[parent[w]].tasks # <<>>
    /\ LET q == pool[parent[w]]
           tool_index == Head(q.tasks)[2]
       IN  /\ stack' = [stack EXCEPT ![w] = <<Frame(q.chain, tool_index + 1, "sem")>>]
           /\ pool' = [pool EXCEPT ![parent[w]].tasks = Tail(q.tasks)]
    /\ pstate' = [pstate EXCEPT ![w] = "running"]
    /\ UNCHANGED <<cfg, only_reload_results, run_no, disk, mem, exc, monitor_reset, obs,
                   parent, cpu_semaphore, kill_requested>>

\* ToolChainParallel._run_tool: with multiproc.cpu_semaphore, unless the
\* child is a ToolChainParallel.
Acquire(w) ==
    /\ At(w, "sem")
    /\ IF UsesSemaphore(CurTool(w))
       THEN /\ cpu_semaphore > 0
            /\ cpu_semaphore' = cpu_semaphore - 1
       ELSE UNCHANGED cpu_semaphore
    /\ stack' = SetPh(w, "call")
    /\ UNCHANGED <<cfg, only_reload_results, run_no, disk, mem, exc, pstate, monitor_reset, ev,
                   start_reuse, warm, pool, parent, kill_requested>>

\* Faulty variant of requests_kill: no exception sets the flag.
requests_kill_never(e) == FALSE

\* except KeyboardInterrupt: pass
\* except: multiproc.is_kill_requested(request_kill_now=True)
requests_kill(e) == e.etype # "KeyboardInterrupt"

\* A KeyboardInterrupt reaches the worker while the body of a tool runs.
Interrupted(w) ==
    /\ w # Main
    /\ At(w, "run")
    /\ IsTool(CurTool(w))
    /\ ev' = [ev EXCEPT ![CurTool(w)] = @ \cup {"run", "interrupt"}]
    /\ exc' = [exc EXCEPT ![w] = NewExc("KeyboardInterrupt", "signal", CurTool(w))]
    /\ stack' = SetPh(w, "caught")
    /\ UNCHANGED <<cfg, only_reload_results, run_no, disk, mem, pstate, monitor_reset,
                   start_reuse, warm, par>>

WorkerExcept(w) ==
    /\ At(w, "except")
    /\ kill_requested' = (kill_requested \/ requests_kill(exc[w]))
    /\ exc' = [exc EXCEPT ![w] = NoExc]
    /\ stack' = SetPh(w, "return_fail")
    /\ UNCHANGED <<cfg, only_reload_results, run_no, disk, mem, pstate, monitor_reset, ev,
                   start_reuse, warm, pool, parent, cpu_semaphore>>

\* Faulty variant of worker_result: the chain's flag is returned after a
\* failure too.
worker_result_any(w, f) ==
    [name |-> Name(FrameTool(w, f)), reused |-> mem[w].reuse[f.c]]

\* What _run_tool_in_worker returns: (tool.name, reused).
worker_result(w, f) ==
    [name |-> Name(FrameTool(w, f)),
     reused |-> IF f.ph = "return_ok" THEN mem[w].reuse[f.c] ELSE FALSE]

\* return tool.name, reused: the completion reaches the parent's iterator.
WorkerReturn(w) ==
    /\ Running(w)
    /\ TopFrame(w).ph \in {"return_ok", "return_fail"}
    /\ pool' = [pool EXCEPT ![parent[w]].results =
                   Append(@, worker_result(w, TopFrame(w)))]
    /\ ev' = [ev EXCEPT ![FrameTool(w, stack[w][1])] =
                 @ \cup IF worker_result(w, TopFrame(w)).reused
                        THEN {"reported"} ELSE {"reported", "fresh"}]
    /\ stack' = [stack EXCEPT ![w] = <<>>]
    /\ pstate' = [pstate EXCEPT ![w] = "idle"]
    /\ UNCHANGED <<cfg, only_reload_results, run_no, disk, mem, exc, monitor_reset,
                   start_reuse, warm, parent, cpu_semaphore, kill_requested>>

\* Faulty variant of load_results: nothing is loaded.
load_nothing(m, tool) == m

\* ToolChainParallel._load_results: every Tool below `tool` calls reuse();
\* a chain without children gets them from its lazy_eval_tools_func.
RECURSIVE load_results(_, _)
RECURSIVE load_all(_, _)
load_results(m, tool) ==
    IF IsTool(tool) THEN [m EXCEPT !.result[tool] = io_get(tool)]
    ELSE IF IsChain(tool)
    THEN LET m1 == IF Tree.lazy[tool] # <<>> /\ m.ch[tool].tool_chain = <<>>
                   THEN [m EXCEPT !.ch[tool] = add_tools(@, Tree.lazy[tool])]
                   ELSE m
         IN  load_all(m1, m1.ch[tool].tool_chain)
    ELSE m
load_all(m, tools) ==
    IF tools = <<>> THEN m
    ELSE load_all(load_results(m, Head(tools)), Tail(tools))

\* The Tools below `tool` in memory m.
RECURSIVE ToolsBelow(_, _)
ToolsBelow(m, tool) ==
    IF IsTool(tool) THEN {tool}
    ELSE UNION {ToolsBelow(m, m.ch[tool].tool_chain[i]) :
                   i \in DOMAIN m.ch[tool].tool_chain}

\* Faulty variant of KillGroup: only the calling process is signalled.
KillParentOnly ==
    /\ pstate' = [pstate EXCEPT ![Main] = "killed"]
    /\ stack' = [stack EXCEPT ![Main] = <<>>]
    /\ pool' = [pool EXCEPT ![Main] = NoPool]
    /\ exc' = [exc EXCEPT ![Main] = NoExc]

\* os.killpg(os.getpid(), signal.SIGTERM)
KillGroup ==
    /\ pstate' = [w \in Procs |-> IF w = Main THEN "killed" ELSE "unborn"]
    /\ stack' = [w \in Procs |-> <<>>]
    /\ pool' = [w \in Procs |-> NoPool]
    /\ exc' = [w \in Procs |-> NoExc]

\* One completion in the parent's loop over result_iter.
PoolResult(p) ==
    /\ At(p, "drain")
    /\ pool[p].results # <<>>
    /\ LET q == pool[p]
           r == Head(q.results)
           t == mem[p].ch[q.chain].tool_names[r.name]
           m1 == [mem[p] EXCEPT !.reuse[q.chain] = (@ /\ r.reused)]
           m2 == load_results(m1, t)
       IN  IF kill_requested
           THEN /\ KillGroup
                /\ UNCHANGED <<mem, ev>>
           ELSE /\ mem' = [mem EXCEPT ![p] = m2]
                /\ pool' = [pool EXCEPT ![p].results = Tail(q.results),
                                        ![p].got = q.got + 1]
                /\ ev' = [n \in Nodes |-> IF n \in ToolsBelow(m2, t)
                                          THEN ev[n] \cup {"load"} ELSE ev[n]]
                /\ UNCHANGED <<stack, pstate, exc>>
    /\ UNCHANGED <<cfg, only_reload_results, run_no, disk, monitor_reset, start_reuse, warm, parent,
                   cpu_semaphore, kill_requested>>

\* Faulty variant of ParentInterrupt: the interrupt only ends the loop.
ParentInterrupt_pass(p) ==
    /\ At(p, "drain")
    /\ stack' = SetPh(p, "finish")
    /\ UNCHANGED <<cfg, only_reload_results, run_no, disk, mem, exc, pstate,
                   monitor_reset, obs, par>>

\* except KeyboardInterrupt: os.killpg(os.getpid(), signal.SIGTERM)
ParentInterrupt(p) ==
    /\ At(p, "drain")
    /\ KillGroup
    /\ UNCHANGED <<cfg, only_reload_results, run_no, disk, mem, monitor_reset, obs,
                   parent, cpu_semaphore, kill_requested>>

\* The iterator is exhausted: pool.close(), pool.join(), run() returns.
PoolJoin(p) ==
    /\ At(p, "drain")
    /\ pool[p].got = pool[p].n
    /\ pool' = [pool EXCEPT ![p] = NoPool]
    /\ pstate' = [w \in Procs |-> IF w # p /\ w # Main /\ parent[w] = p
                                     /\ pstate[w] = "idle"
                                  THEN "unborn" ELSE pstate[w]]
    /\ mem' = [w \in Procs |-> IF w # p /\ w # Main /\ parent[w] = p
                                  /\ pstate[w] = "idle"
                               THEN mem[Main] ELSE mem[w]]
    /\ parent' = [w \in Procs |-> IF w # p /\ w # Main /\ parent[w] = p
                                     /\ pstate[w] = "idle"
                                  THEN Main ELSE parent[w]]
    /\ stack' = SetPh(p, "finish")
    /\ UNCHANGED <<cfg, only_reload_results, run_no, disk, exc, monitor_reset, obs,
                   cpu_semaphore, kill_requested>>

Step(p) ==
    \/ Enter(p)
    \/ Decide(p)
    \/ Reuse(p)
    \/ Starting(p)
    \/ RunTool(p)
    \/ RunChain(p)
    \/ Caught(p)
    \/ Finished(p)
    \/ Exit(p)
    \/ ExitRaise(p)

Program ==
    \/ StartRun
    \/ NewProcess
    \/ RunAgain
    \/ ProgramReturn
    \/ ProgramRaise

Parallel(p) ==
    \/ RunParallel(p)
    \/ WorkerTake(p)
    \/ Acquire(p)
    \/ WorkerExcept(p)
    \/ WorkerReturn(p)
    \/ PoolResult(p)
    \/ PoolJoin(p)

\* The sequential chains: trees 1 to 3, settings.can_go_parallel() false.
SeqTrees == {1, 2, 3}
Init == InitWith(SeqTrees, FALSE, {1})
Next ==
    \/ Program
    \/ \E p \in Procs : Step(p)
Spec == Init /\ [][Next]_vars

\* The parallel chains: trees 4 and 5, settings.can_go_parallel() true.
ParTrees == {4, 5}
InitPar == InitWith(ParTrees, TRUE, {1, 2, 3})
ProcNext == \E p \in Procs : Step(p) \/ Parallel(p)
NextPar ==
    \/ StartRun
    \/ NewProcessPar
    \/ ProgramReturn
    \/ ProcNext
SpecPar == InitPar /\ [][NextPar]_vars

\* The program builds a chain with add_tool before it runs anything: tree 6.
NotATool == 0
BuildAddTool ==
    /\ pstate[Main] = "ready"
    /\ \E t \in Nodes \ {Top} :
          mem' = [mem EXCEPT ![Main].ch[Top] = add_tool(@, t, Name(t), TRUE)]
    /\ UNCHANGED <<cfg, only_reload_results, run_no, disk, stack, exc, pstate,
                   monitor_reset, obs, par>>

BuildAddOther ==
    /\ pstate[Main] = "ready"
    /\ mem' = [mem EXCEPT ![Main].ch[Top] = add_tool(@, NotATool, "", FALSE)]
    /\ UNCHANGED <<cfg, only_reload_results, run_no, disk, stack, exc, pstate,
                   monitor_reset, obs, par>>

BuildTrees == {6}
InitBuild == InitWith(BuildTrees, FALSE, {1})
NextBuild ==
    \/ BuildAddTool
    \/ BuildAddOther
SpecBuild == InitBuild /\ [][NextBuild]_vars

\* One run of tree 1 or 2 over a disk in any state: markers and stored results
\* left by earlier programs, or removed or copied by hand.
AnyDiskTrees == {1, 2}
InitAnyDisk ==
    /\ sc \in AnyDiskTrees
    /\ only_reload_results \in BOOLEAN
    /\ can_go_parallel = FALSE
    /\ max_num_processes = 1
    /\ run_no = 0
    /\ logs \in SUBSET UNION {{logfile(t), logfile_res(t)} :
                               t \in {n \in Nodes : IsTool(n)}}
    /\ marker_text = [f \in Markers |-> IF f \in logs
                                         THEN <<"time_start", "time_fin">>
                                         ELSE <<>>]
    /\ store \in [Nodes -> BOOLEAN]
    /\ \A n \in Nodes : store[n] => IsTool(n)
    /\ \E default_reuse \in BOOLEAN :
          mem = [p \in Procs |-> Construct(default_reuse)]
    /\ stack = [p \in Procs |-> <<>>]
    /\ exc = [p \in Procs |-> NoExc]
    /\ pstate = [p \in Procs |-> IF p = Main THEN "ready" ELSE "unborn"]
    /\ monitor_reset = FALSE
    /\ ev = NoEvents
    /\ start_reuse = [n \in Nodes |-> FALSE]
    /\ warm = FALSE
    /\ pool = [p \in Procs |-> NoPool]
    /\ parent = [p \in Procs |-> Main]
    /\ cpu_semaphore = cpu_semaphore_init
    /\ kill_requested = FALSE
NextAnyDisk ==
    \/ StartRun
    \/ ProgramReturn
    \/ ProgramRaise
    \/ \E p \in Procs : Step(p)
SpecAnyDisk == InitAnyDisk /\ [][NextAnyDisk]_vars

----------------------------------------------------------------------------
(* Properties of the sequential lifecycle, checked under Spec *)

\* The children of chain c, as the program's process holds them.
Kids(c) == mem[Main].ch[c].tool_chain
\* Lifecycle method e was invoked on node t in this run.
Did(t, e) == e \in ev[t]
Chains == {c \in Nodes : IsChain(c)}
Frames == {stack[Main][k] : k \in DOMAIN stack[Main]}

\* run() of chain c has been entered in this run and finished() of c has not
\* been called since.
InRun(c) ==
    \/ \E f \in Frames : f.c = c
    \/ \E f \in Frames : /\ FrameTool(Main, f) = c
                         /\ f.ph \in {"running", "finish", "caught", "raise"}
    \/ c = Top /\ pstate[Main] \in {"done", "failed"}

CacheableTools == {t \in Nodes : IsTool(t) /\ can_reuse(t)}

\* C3: a first run of a chain built with reuse requested, begun with the
\* marker (and stored result) of every cacheable tool on disk, calls
\* starting() and run() on no cacheable tool, and when it has returned every
\* cacheable tool has been reused.
C3_SecondRunReusesAll ==
    warm =>
        /\ \A t \in CacheableTools : ~Did(t, "starting") /\ ~Did(t, "run")
        /\ pstate[Main] = "done" => \A t \in CacheableTools : Did(t, "reuse")

\* Such a run has returned; a non-cacheable tool was executed in it.
C3_Witness ==
    /\ warm
    /\ pstate[Main] = "done"
    /\ \E t \in CacheableTools : Did(t, "reuse")
    /\ \E t \in Nodes : IsTool(t) /\ ~can_reuse(t) /\ Did(t, "finished")

\* The decision for tool t has been taken in favour of reuse() and reuse()
\* is the next call.
AboutToReuse(t) == At(Main, "reuse") /\ CurTool(Main) = t

Persisted(a) ==
    /\ Tool_finished_marker(a, mem[Main].result[a]) \in logs
    /\ IsWrapper(mem[Main].result[a]) => store[a]

\* run() of child b was called and an exception left it.
BodyRaised(b) == Did(b, "run") /\ Did(b, "raise")

\* C5: when run() of a child of a chain has raised, no lifecycle method has
\* been invoked on any later child of that chain, and for every earlier
\* child tool the marker and result it wrote, or the marker and result it
\* was reused from, are still on disk.
C5_ShortCircuit ==
    \A c \in Chains : \A j \in DOMAIN Kids(c) :
        BodyRaised(Kids(c)[j]) =>
            /\ \A k \in (j + 1)..Len(Kids(c)) : ev[Kids(c)[k]] = {}
            /\ \A i \in 1..(j - 1) :
                  IsTool(Kids(c)[i]) =>
                      /\ Did(Kids(c)[i], "finished") => Persisted(Kids(c)[i])
                      /\ Did(Kids(c)[i], "reuse")
                            => Tool_wanna_reuse(Kids(c)[i], TRUE)

\* The run has failed in the second of three children, whose first child
\* had finished before.
C5_Witness ==
    /\ pstate[Main] = "failed"
    /\ \E c \in Chains : \E i, j, k \in DOMAIN Kids(c) :
          /\ i < j /\ j < k
          /\ Did(Kids(c)[i], "finished")
          /\ IsTool(Kids(c)[j]) /\ BodyRaised(Kids(c)[j])

\* The chain that holds node n, and the names from below node 1 down to n.
ParentOf(n) ==
    CHOOSE c \in Nodes :
        \E i \in DOMAIN Kids(c) : Kids(c)[i] = n
RECURSIVE PathOf(_)
PathOf(n) ==
    IF ParentOf(n) = Top THEN Name(n)
    ELSE PathOf(ParentOf(n)) \o "/" \o Name(n)

C9_RunNeverRaisesDuplicate ==
    \A p \in Procs : exc[p].cause # "duplicate"

----------------------------------------------------------------------------
(* Properties of add_tool, checked under SpecBuild *)

Built == mem[Main].ch[Top]
NamesOf(ch) == {Name(ch.tool_chain[i]) : i \in DOMAIN ch.tool_chain}

\* The name map and the child list hold the same children.
Consistent(ch) ==
    /\ DOMAIN ch.tool_names = NamesOf(ch)
    /\ Cardinality(DOMAIN ch.tool_names) = Len(ch.tool_chain)
    /\ \A i \in DOMAIN ch.tool_chain :
          ch.tool_names[Name(ch.tool_chain[i])] = ch.tool_chain[i]

\* One add_tool call: it fails and changes neither container, or it appends
\* one child whose name the chain did not hold.
AddToolStep ==
    LET a == Built
        b == mem'[Main].ch[Top]
    IN  IF b.error # "none"
        THEN b.tool_chain = a.tool_chain /\ b.tool_names = a.tool_names
        ELSE b # a =>
                /\ Len(b.tool_chain) = Len(a.tool_chain) + 1
                /\ SubSeq(b.tool_chain, 1, Len(a.tool_chain)) = a.tool_chain
                /\ Name(b.tool_chain[Len(b.tool_chain)]) \notin NamesOf(a)

\* C10: after any sequence of add_tool calls the key set of the name map is
\* the set of names in the child list and both have the same size; a call
\* that fails leaves both as they were, and a call succeeds only with a
\* name the chain does not hold yet.
C10_AddToolKeepsConsistent == [](Consistent(Built)) /\ [][AddToolStep]_vars

\* A chain of two children has refused a third of a name it already holds.
C10_Witness ==
    /\ Built.error = "duplicate"
    /\ Len(Built.tool_chain) >= 2
    /\ pstate[Main] = "ready"

----------------------------------------------------------------------------
(* Properties of ToolChainParallel.run(), checked under SpecPar *)

Tools == {t \in Nodes : IsTool(t)}
HasMarker(t) == logfile(t) \in logs \/ logfile_res(t) \in logs
\* Tool t went through its lifecycle to the end, in whichever process.
Completed(t) == Did(t, "finished") \/ Did(t, "reuse")
\* starting() of t was called and finished() was not.
CutOff(t) == Did(t, "starting") /\ ~Did(t, "finished")
Killed == pstate[Main] = "killed"

\* C6 (as stated): when the process group has been terminated after the
\* body of one child of a parallel chain raised, every other child of that
\* chain has completed and has its marker on disk.
C6_SiblingsCompleteBeforeTeardown ==
    Killed =>
        \A y \in Tools : BodyRaised(y) =>
            \A x \in Tools \ {y} :
                ParentOf(x) = ParentOf(y) => Completed(x) /\ HasMarker(x)

\* C6 (as amended): the parent terminates the whole process group when it
\* handles the first completion after a child has failed, without waiting
\* for the siblings: no worker is left, a tool that had finished by then
\* has its marker on disk, and a tool that was started and had not finished
\* by then has none.
C6_TeardownKeepsOnlyFinished ==
    Killed =>
        /\ \A w \in Procs \ {Main} : pstate[w] = "unborn"
        /\ \A t \in Tools :
              /\ Did(t, "finished") => HasMarker(t)
              /\ CutOff(t) => ~HasMarker(t)

\* The group was terminated after Y failed: one sibling had finished, the
\* other was stopped while it ran.
C6_Witness ==
    /\ Killed
    /\ \E x, y, z \in Tools :
          /\ ParentOf(x) = ParentOf(y) /\ ParentOf(z) = ParentOf(y)
          /\ BodyRaised(y)
          /\ Did(x, "finished") /\ HasMarker(x)
          /\ Did(z, "run") /\ ~Did(z, "raise") /\ ~Completed(z)

\* run() is in progress and no process of the run can take a step: the
\* parent waits for a completion that never comes.
Stuck == pstate[Main] = "running" /\ ~ENABLED (ProcNext \/ ProgramReturn)

\* C7 (as stated): with two or more processes configured, no state is
\* reachable in which run() of a parallel chain is in progress and the
\* parent waits forever for a completion.
C7_ParentNeverWaitsForever ==
    max_num_processes >= 2 => ~Stuck

----------------------------------------------------------------------------
(* Properties of a run over any disk, checked under SpecAnyDisk *)

\* The step in which _run_tool asks the tool it has entered wanna_reuse().
AsksWannaReuse == At(Main, "entered") /\ stack'[Main] # stack[Main]
\* After that step reuse() is the next call.
AnsweredYes == stack'[Main][Len(stack'[Main])].ph = "reuse"

\* C11: Tool.wanna_reuse(all_reused_before_me) answers true exactly when
\* can_reuse and all_reused_before_me and (the 'ran, no result' marker
\* exists or (the 'ran, result available' marker exists and the ResultStore
\* holds the result)), whatever the five are.
C11_WannaReuseTruthTable ==
    [][AsksWannaReuse /\ IsTool(CurTool(Main)) =>
          (AnsweredYes <=>
              /\ can_reuse(CurTool(Main))
              /\ mem[Main].reuse[TopFrame(Main).c]
              /\ \/ logfile(CurTool(Main)) \in logs
                 \/ /\ logfile_res(CurTool(Main)) \in logs
                    /\ store[CurTool(Main)])]_vars

\* A tool is about to be reused on the strength of its 'result available'
\* marker and its stored result alone.
C11_Witness ==
    /\ At(Main, "reuse")
    /\ can_reuse(CurTool(Main))
    /\ logfile(CurTool(Main)) \notin logs
    /\ logfile_res(CurTool(Main)) \in logs
    /\ store[CurTool(Main)]

----------------------------------------------------------------------------
(* Further properties of the sequential lifecycle, checked under Spec *)

NonCacheableTools == {t \in Nodes : IsTool(t) /\ ~can_reuse(t)}

\* A tool with can_reuse = false is never reused: when its lifecycle has
\* ended without an exception, and when the run has returned, its body was
\* executed.
AlwaysExecuted(t) ==
    /\ ~Did(t, "reuse") /\ ~AboutToReuse(t)
    /\ Did(t, "exit") /\ ~Did(t, "raise") => Did(t, "run")
    /\ pstate[Main] = "done" => Did(t, "run")

\* A tool that was reused did not run, and holds what the store holds.
ReusedNotRun(t) ==
    Did(t, "reuse") =>
        /\ ~Did(t, "starting") /\ ~Did(t, "run")
        /\ mem[Main].result[t] = io_get(t)
        /\ store[t] => mem[Main].result[t] = "wrapper"

\* The tool asked is the first child of its chain, the chain's flag is true,
\* and the tool's 'result available' marker and stored result are there.
FirstAndCached ==
    /\ TopFrame(Main).i = 1
    /\ can_reuse(CurTool(Main))
    /\ mem[Main].reuse[TopFrame(Main).c]
    /\ logfile_res(CurTool(Main)) \in logs
    /\ store[CurTool(Main)]

\* C12: a tool with can_reuse = false is executed in every run that reaches
\* it, whatever markers exist and whatever the chain's flag is; a tool with
\* can_reuse = true that is first in its chain and has its 'result
\* available' marker and stored result is reused when the chain's flag is
\* true: run() is not invoked and its result is the value from the store.
C12_NonCacheableRunsCachedFirstReused ==
    /\ [](\A t \in NonCacheableTools : AlwaysExecuted(t))
    /\ [](\A t \in CacheableTools : ReusedNotRun(t))
    /\ [][AsksWannaReuse /\ FirstAndCached => AnsweredYes]_vars

\* Second run, reuse requested: the first tool was reused with the stored
\* result, and the non-cacheable tool after it is being executed although
\* its marker of the first run exists and the chain's flag is true.
C12_Witness ==
    /\ run_no >= 2
    /\ At(Main, "starting")
    /\ CurTool(Main) \in NonCacheableTools
    /\ logfile(CurTool(Main)) \in logs
    /\ mem[Main].reuse[TopFrame(Main).c]
    /\ \E t \in CacheableTools :
          /\ t = Kids(TopFrame(Main).c)[1]
          /\ Did(t, "reuse")
          /\ mem[Main].result[t] = "wrapper"

\* A marker of tool t comes into existence in this step.
MarkerAppears(t) == ~HasMarker(t) /\ HasMarker(t)'
\* This step is the call of finished() on tool t.
FinishedNow(t) == ~Did(t, "finished") /\ Did(t, "finished")'

MarkersOf(t) == {logfile(t), logfile_res(t)} \cap logs
\* The two timestamps, as Tool.starting() and Tool.finished() take them.
Stamps == <<"time_start", "time_fin">>

\* Tool t holds no result, or an empty one.
EmptyResult(t) == mem[Main].result[t] \in {"none", "empty"}

\* C14: each Tool.finished() writes exactly one marker file, the 'result
\* available' marker if the tool has a result that is not empty and the
\* 'no result' marker otherwise, holding the start and then the finish timestamp, and touches
\* no other marker; starting without markers, at most one of the two
\* markers of a tool exists in every state.
C14_MarkerExclusive ==
    /\ [](\A t \in Tools : Cardinality(MarkersOf(t)) <= 1)
    /\ [](\A f \in Markers :
             marker_text[f] = IF f \in logs THEN Stamps ELSE <<>>)
    /\ [][\A t \in Tools : FinishedNow(t) =>
             LET f == IF ~EmptyResult(t)'
                      THEN logfile_res(t) ELSE logfile(t)
             IN  /\ logs' \ logs = {f}
                 /\ logs \subseteq logs'
                 /\ marker_text'[f] = Stamps
                 /\ \A g \in Markers \ {f} :
                       marker_text'[g] = marker_text[g]]_vars

\* A tool whose result an earlier run had stored has now finished without
\* a result: of its two markers only the 'no result' marker exists.
C14_Witness ==
    \E t \in CacheableTools :
        /\ Did(t, "finished")
        /\ store[t]
        /\ mem[Main].result[t] = "none"
        /\ MarkersOf(t) = {logfile(t)}

----------------------------------------------------------------------------
(* Properties of ToolChainVanilla, checked under SpecVanilla *)

\* A ToolChainVanilla whose tools change the analysis namespace: tree 7,
\* run by one program that calls run() again and again.
VanillaTrees == {7}
InitVanilla ==
    /\ InitWith(VanillaTrees, FALSE, {1})
    /\ ~only_reload_results
NextVanilla ==
    \/ StartRun
    \/ RunAgain
    \/ ProgramReturn
    \/ ProgramRaise
    \/ \E p \in Procs :
          \/ Enter(p)
          \/ Decide(p)
          \/ Starting(p)
          \/ RunTool(p)
          \/ Touch(p)
          \/ RunChain(p)
          \/ HookRaise(p)
          \/ Caught(p)
          \/ Finished(p)
          \/ Exit(p)
          \/ ExitRaise(p)
SpecVanilla == InitVanilla /\ [][NextVanilla]_vars

\* What a binding holds, whichever object holds it.
Content(v) == [val |-> v.val, type |-> v.type]

\* The names that ToolChainVanilla copies, or that do not exist, when the
\* chain is entered: nothing outside the chain changes the namespace, so
\* it is entered with the initial namespace.
Isolated == {k \in AnalysisKeys : ~Excluded(k, InitialAnalysis[k])}

SameContext(p) ==
    \A k \in Isolated :
        Content(mem[p].analysis[k]) = Content(InitialAnalysis[k])

\* Process p is about to run the first child of a ToolChainVanilla.
AtFirstChild(p) ==
    /\ At(p, "call")
    /\ TopFrame(p).c # 0
    /\ Kind(TopFrame(p).c) = "ToolChainVanilla"
    /\ TopFrame(p).i = 1

\* C16: once a ToolChainVanilla has been left (its children succeeded, a
\* child raised, or a hook raised), every name that is not private, not
\* results_base or current_result, and not bound to a module or a callable
\* holds what it held when the chain was entered, and a name created during
\* the run is unbound again; so every run of the chain starts its children
\* with the same namespace.
C16_VanillaRestoresContext ==
    \A p \in Procs :
        /\ ~InVanilla(p) => SameContext(p)
        /\ AtFirstChild(p) => SameContext(p)

\* The second run of the chain was left by a raising hook after its tools
\* had changed the namespace: the private name shows the change, the
\* copied name is bound to the copy.
C16_Witness ==
    /\ run_no = 2
    /\ pstate[Main] = "failed"
    /\ exc[Main].cause = "hook"
    /\ "run" \in ev[3]
    /\ mem[Main].analysis["_cache"].val = 1
    /\ mem[Main].analysis["fs_samples"].id \in {"copy", "copy2"}

----------------------------------------------------------------------------
(* Properties of nested parallel chains, checked under SpecNested *)

\* A parallel chain as a child of a parallel chain: tree 8, with one or two
\* processes configured; every body succeeds.
NestedTrees == {8}
InitNested == InitWith(NestedTrees, TRUE, {1, 2})
NextNested ==
    \/ StartRun
    \/ NewProcessPar
    \/ ProgramReturn
    \/ \E p \in Procs :
          \/ Enter(p)
          \/ Decide(p)
          \/ Reuse(p)
          \/ Starting(p)
          \/ RunTool(p)
          \/ Finished(p)
          \/ Exit(p)
          \/ RunParallel(p)
          \/ WorkerTake(p)
          \/ Acquire(p)
          \/ WorkerReturn(p)
          \/ PoolResult(p)
          \/ PoolJoin(p)
SpecNested == InitNested /\ [][NextNested]_vars

\* The child that worker w was given, and whether its lifecycle is being
\* executed: _run_tool has been called (with the permit, if it needs one)
\* and __exit__ has not returned.
Unit(w) == FrameTool(w, stack[w][1])
ExecutingUnit(w) ==
    /\ w # Main
    /\ Running(w)
    /\ Len(stack[w]) = 1 =>
          stack[w][1].ph \notin {"sem", "return_ok", "return_fail", "except"}
Executing == {w \in Procs : ExecutingUnit(w)}
ExecutingGated == {w \in Executing : Kind(Unit(w)) # "ToolChainParallel"}

Entered(w) ==
    /\ Running(w)
    /\ TopFrame(w).c # 0
    /\ TopFrame(w).ph \notin {"sem", "call", "return_ok", "return_fail", "except"}
WorkingDir(w) == Str(Cwd(mem[w].tool_stack))
Below == {n \in Nodes : n # Top /\ Kind(n) # "none"}

\* C18: two processes that are inside the lifecycle of a node at the same
\* time, in one pool or in nested pools, are inside different nodes with
\* different working directories: the working directory is the path of the
\* node, and no two nodes of the tree have one path.
C18_ConcurrentUnitsWriteApart ==
    /\ \A a, b \in Below : a # b => PathOf(a) # PathOf(b)
    /\ \A w \in Procs :
          Entered(w) => WorkingDir(w) = PathOf(CurTool(w)) \o "/"
    /\ \A v, w \in Procs :
          v # w /\ Entered(v) /\ Entered(w) =>
              /\ CurTool(v) # CurTool(w)
              /\ WorkingDir(v) # WorkingDir(w)

\* A tool of the outer pool and a tool of the nested pool are both about to
\* write their result and marker.
C18_Witness ==
    \E v, w \in Procs :
        /\ At(v, "finish") /\ At(w, "finish")
        /\ IsTool(CurTool(v)) /\ IsTool(CurTool(w))
        /\ ParentOf(CurTool(v)) # ParentOf(CurTool(w))

\* The names from node 1 down to n, joined by "/".
RECURSIVE StructuralPath(_)
StructuralPath(n) ==
    IF n = Top THEN Name(n)
    ELSE path_join(StructuralPath(ParentOf(n)), Name(n))

\* The tools below n, in declared order.
RECURSIVE LeavesOf(_)
RECURSIVE LeavesOfAll(_)
LeavesOf(n) == IF IsTool(n) THEN <<n>> ELSE LeavesOfAll(Kids(n))
LeavesOfAll(tools) ==
    IF tools = <<>> THEN <<>>
    ELSE LeavesOf(Head(tools)) \o LeavesOfAll(Tail(tools))

\* C19: the path of a node is the names of its ancestors from the root
\* down, then its own name, joined by "/"; tool_paths() of the root chain
\* is that path of every tool below it, in declared order; and the path that
\* ToolChainParallel.run() hands to its workers is that path of the chain,
\* in every run.
C19_PathAddressing ==
    /\ tool_paths(mem[Main].ch, Top) =
          [i \in DOMAIN LeavesOf(Top) |-> StructuralPath(LeavesOf(Top)[i])]
    /\ \A p \in Procs :
          pool[p] # NoPool => pool[p].my_path = StructuralPath(pool[p].chain)

----------------------------------------------------------------------------
(* Further properties of ToolChainParallel.run(), checked under SpecPar *)

\* Worker w is blocked in `with multiproc.cpu_semaphore`.
WaitsForPermit(w) ==
    At(w, "sem") /\ UsesSemaphore(CurTool(w)) /\ cpu_semaphore = 0
\* Process p is blocked in the loop over result_iter: no completion has
\* arrived and not every child has completed.
WaitsForCompletion(p) ==
    At(p, "drain") /\ pool[p].results = <<>> /\ pool[p].got < pool[p].n
\* Worker w has nothing to take from its pool.
NothingToTake(w) == pstate[w] = "idle" /\ pool[parent[w]].tasks = <<>>

\* Every process of the run waits for a permit, or for a completion of a
\* worker that waits for a permit, and a nested pool is among them.
GateDeadlock ==
    /\ pstate[Main] = "running"
    /\ \E w \in Procs : WaitsForPermit(w) /\ parent[w] # Main
    /\ \A p \in Procs :
          \/ pstate[p] = "unborn"
          \/ NothingToTake(p)
          \/ WaitsForPermit(p)
          \/ WaitsForCompletion(p)

\* C20: a ToolChainParallel that runs inside a pool worker, as a child of a
\* parallel chain or below a plain ToolChain that the worker executes, never
\* deadlocks on multiproc.cpu_semaphore, whatever max_num_processes >= 1 is:
\* no state is reachable in which every process waits for a permit or for a
\* process that waits for one.
C20_NestedNeverDeadlocksOnGate == ~GateDeadlock

----------------------------------------------------------------------------
(* The lifecycle as a state machine, checked under Spec *)

\* The events of node n so far in this run are in the order of _run_tool:
\* each was preceded by the ones before it.
InOrder(n) ==
    /\ ev[n] # {} => Did(n, "enter")
    /\ Did(n, "reuse") \/ Did(n, "starting") \/ Did(n, "raise") =>
          Did(n, "wanna_reuse")
    /\ Did(n, "run") => Did(n, "starting")
    /\ Did(n, "finished") => Did(n, "run") /\ ~Did(n, "raise")
    /\ Did(n, "reuse") =>
          ~Did(n, "starting") /\ ~Did(n, "run") /\ ~Did(n, "finished")
    /\ At(Main, "reuse") /\ CurTool(Main) = n => ~Did(n, "starting")

\* The passes the claim names: reuse alone; starting, run, finished; and
\* starting, run, then the exception of run().
ReusedPass(n) == Did(n, "reuse") /\ ~Did(n, "raise")
ExecutedPass(n) ==
    Did(n, "starting") /\ Did(n, "run") /\ Did(n, "finished")
RaisedPass(n) ==
    Did(n, "starting") /\ Did(n, "run") /\ Did(n, "raise") /\ ~Did(n, "finished")
\* The pass that ends before starting(): the reload-only setting forbids
\* executing a node with can_reuse = true that is not reused.
AbortedPass(n) ==
    /\ ~Did(n, "reuse") /\ ~Did(n, "starting") /\ Did(n, "raise")
    /\ can_reuse(n) /\ only_reload_results

\* finished() is called only with no exception in flight, and nothing is
\* invoked on a node after its exit until the next run starts.
StepsInOrder ==
    \A n \in Below :
        /\ FinishedNow(n) => exc[Main] = NoExc
        /\ Did(n, "exit") => ev'[n] = ev[n] \/ ev' = NoEvents

\* C30 (as stated): in every pass of a node the events are enter,
\* wanna_reuse, then reuse alone or starting, run, finished, then exit;
\* reuse() and run() are never both invoked, run() is not invoked after
\* wanna_reuse answered true, finished() is invoked only after run() has
\* returned, and when run() raises the node goes directly to exit.
C30_LifecycleOrder ==
    /\ [](\A n \in Below :
             /\ InOrder(n)
             /\ Did(n, "exit") =>
                   ReusedPass(n) \/ ExecutedPass(n) \/ RaisedPass(n))
    /\ [][StepsInOrder]_vars

\* C30 (as amended): as stated, with one more pass: with the reload-only
\* setting active a node with can_reuse = true that is not reused goes from
\* wanna_reuse directly to exit, with a RuntimeError, and neither reuse()
\* nor starting() is invoked on it.
C30_LifecycleOrderOrAbort ==
    /\ [](\A n \in Below :
             /\ InOrder(n)
             /\ Did(n, "exit") =>
                   \/ ReusedPass(n) \/ ExecutedPass(n) \/ RaisedPass(n)
                   \/ AbortedPass(n))
    /\ [][StepsInOrder]_vars

\* One run with all four passes: a tool reused, a tool executed, a tool
\* whose run() raised, and (in an earlier run of the behaviour, now seen at
\* the chain) a pass that ended by an exception.
C30_Witness ==
    /\ \E a, b, c \in Tools :
          /\ Did(a, "exit") /\ ReusedPass(a)
          /\ Did(b, "exit") /\ ExecutedPass(b)
          /\ Did(c, "exit") /\ RaisedPass(c)
    /\ pstate[Main] = "failed"

----------------------------------------------------------------------------
(* One parallel run of tree 9, 10 or 11 over the markers and results an earlier
   program has left for some of the cacheable tools; a KeyboardInterrupt
   may reach a worker or the parent *)

PoolTrees == {9, 10, 11}
InitPool ==
    /\ sc \in PoolTrees
    /\ only_reload_results = FALSE
    /\ can_go_parallel = TRUE
    /\ max_num_processes \in {1, 2}
    /\ run_no = 0
    /\ \E cached \in SUBSET {t \in Nodes : IsTool(t) /\ can_reuse(t)} :
          /\ logs = {logfile_res(t) : t \in cached}
          /\ store = [n \in Nodes |-> n \in cached]
    /\ marker_text = [f \in Markers |-> IF f \in logs
                                         THEN <<"time_start", "time_fin">>
                                         ELSE <<>>]
    /\ \E default_reuse \in BOOLEAN :
          mem = [p \in Procs |-> Construct(default_reuse)]
    /\ stack = [p \in Procs |-> <<>>]
    /\ exc = [p \in Procs |-> NoExc]
    /\ pstate = [p \in Procs |-> IF p = Main THEN "ready" ELSE "unborn"]
    /\ monitor_reset = FALSE
    /\ ev = NoEvents
    /\ start_reuse = [n \in Nodes |-> FALSE]
    /\ warm = FALSE
    /\ pool = [p \in Procs |-> NoPool]
    /\ parent = [p \in Procs |-> Main]
    /\ cpu_semaphore = cpu_semaphore_init
    /\ kill_requested = FALSE
NextPool ==
    \/ StartRun
    \/ ProgramReturn
    \/ \E p \in Procs :
          \/ Enter(p)
          \/ Decide(p)
          \/ Reuse(p)
          \/ Starting(p)
          \/ RunTool(p)
          \/ Interrupted(p)
          \/ Caught(p)
          \/ Finished(p)
          \/ Exit(p)
          \/ ExitRaise(p)
          \/ RunParallel(p)
          \/ WorkerTake(p)
          \/ Acquire(p)
          \/ WorkerExcept(p)
          \/ WorkerReturn(p)
          \/ PoolResult(p)
          \/ ParentInterrupt(p)
          \/ PoolJoin(p)
SpecPool == InitPool /\ [][NextPool]_vars

----------------------------------------------------------------------------
(* What a worker reports, checked under SpecPool *)

\* Worker w reports a completion in this step, and the pair it reports.
Reports(w) == Running(w) /\ pstate'[w] = "idle"
Reported(w) == pool'[parent[w]].results[Len(pool'[parent[w]].results)]
Failed(t) == Did(t, "raise")
\* The chain whose pool worker w serves.
parent_chain(w) == pool[parent[w]].chain

BodyFailed(t) == BodyRaised(t) /\ ~Did(t, "interrupt")
SomeBodyFailed == \E t \in Below : BodyFailed(t)
GroupKilled == Killed /\ \A w \in Procs \ {Main} : pstate[w] = "unborn"
\* The parent handles a completion, or leaves its loop, in this step.
ParentMoves ==
    \/ mem'[Main] # mem[Main]
    \/ stack'[Main] # stack[Main]
    \/ pool'[Main].got # pool[Main].got

\* C22: when the body of a child fails in a worker, the cancellation flag is
\* set before the completion is reported; the exception never reaches the
\* parent and run() of the parallel chain never returns; and the first
\* completion the parent handles with the flag set ends the pool and the
\* whole process group.
C22_WorkerFailureKillsGroup ==
    /\ [](/\ \A w \in Procs \ {Main} :
                At(w, "return_fail") /\ BodyFailed(Unit(w)) => kill_requested
          /\ SomeBodyFailed /\ pstate[Main] # "running" => GroupKilled
          /\ SomeBodyFailed =>
                /\ exc[Main] = NoExc
                /\ pstate[Main] \notin {"done", "failed"}
                /\ ~At(Main, "finish"))
    /\ [][kill_requested /\ ParentMoves => GroupKilled']_vars

\* The group has been killed after a body failed in a worker, and the
\* parent had reloaded another child before.
C22_Witness ==
    /\ GroupKilled
    /\ BodyFailed(2)
    /\ kill_requested
    /\ Did(3, "load")

\* Worker w begins _run_tool_in_worker for a unit of the dispatch list.
TakesUnit(w) == pstate[w] = "idle" /\ pstate'[w] = "running"
\* The parent reconciles a completion in this step.
Reconciles(p) == pool'[p].got = pool[p].got + 1

\* C23: once the cancellation flag is set, no worker starts a unit that had
\* not been started, and the parent reconciles no further completion.
C23_NothingStartsAfterFlag ==
    [][kill_requested =>
          /\ \A w \in Procs : ~TakesUnit(w)
          /\ \A p \in Procs : ~Reconciles(p)]_vars

\* The part of C23 that holds: with the flag set the parent reconciles
\* nothing.
C23_NothingReconciledAfterFlag ==
    [][kill_requested => \A p \in Procs : ~Reconciles(p)]_vars

\* The child that the completion at the head of p's iterator names.
NextChild(p) == mem[p].ch[pool[p].chain].tool_names[Head(pool[p].results).name]
\* run() of the parallel chain at the top has come to its end.
RunReturns == At(Main, "finish") /\ TopFrame(Main).c = 0 /\ Kids(Top) # <<>>
SomeFresh == \E t \in Below : Did(t, "fresh")

EndedWell(t) == (Did(t, "reuse") \/ Did(t, "finished")) /\ ~Failed(t)

\* C25: the parent reloads the subtree of a child only if the child's
\* lifecycle ended with reuse() or finished() in its worker; a child that
\* failed or was interrupted there is never reloaded.
C25_ReloadsOnlyEndedChildren ==
    [][\A p \in Procs : Reconciles(p) => EndedWell(NextChild(p))]_vars

\* The part of C25 that holds: a child whose body raised an exception of
\* its own is never reloaded.
C25_FailedChildNeverReloaded ==
    [][\A p \in Procs : Reconciles(p) => ~BodyFailed(NextChild(p))]_vars

\* Process p creates its pool in this step; the workers forked for it.
CreatesPool(p) == pool[p] = NoPool /\ pool'[p] # NoPool
Forked(p) == {w \in Procs : pstate[w] = "unborn" /\ pstate'[w] = "idle" /\ parent'[w] = p}
\* Worker w enters the unit it was handed in this step.
EntersUnit(w) ==
    /\ w # Main
    /\ At(w, "call")
    /\ Len(stack[w]) = 1
    /\ Running(w)'
    /\ stack'[w] # stack[w]
Serving(p) == {w \in Procs \ {Main} : pstate[w] # "unborn" /\ parent[w] = p}

\* C26: a pool is created only for a chain with n >= 1 children, with
\* min(n, settings.max_num_processes) workers and the dispatch list
\* (chain_path, 0), ..., (chain_path, n - 1); every child is entered by one
\* worker, once, and by no other process; a chain without children creates
\* no pool and hands out nothing.
C26_Dispatch ==
    /\ [][\A p \in Procs :
             /\ CreatesPool(p) =>
                   LET n == Len(mem'[p].ch[CurTool(p)].tool_chain)
                   IN  /\ n >= 1
                       /\ pool'[p].chain = CurTool(p)
                       /\ Len(pool'[p].tasks) = n
                       /\ \A i \in 0..(n - 1) :
                             pool'[p].tasks[i + 1] = <<pool'[p].my_path, i>>
                       /\ Cardinality(Forked(p)) = Min(n, max_num_processes)
             /\ EntersUnit(p) => ~Did(Unit(p), "enter")
             /\ TakesUnit(p) => Head(pool[parent[p]].tasks)[1] = pool[parent[p]].my_path]_vars
    /\ [](/\ Len(stack[Main]) <= 1
          /\ \A w1, w2 \in Procs \ {Main} :
                Running(w1) /\ Running(w2) /\ w1 # w2 => Unit(w1) # Unit(w2)
          /\ Cardinality(Serving(Main)) <= Min(Len(Kids(Top)), max_num_processes)
          /\ RunReturns => \A t \in Below : Did(t, "enter") /\ Did(t, "exit")
          /\ Kids(Top) = <<>> =>
                /\ \A p \in Procs : pool[p] = NoPool
                /\ Serving(Main) = {})

\* One worker has run all three children of a chain, and run() returns.
C26_Witness ==
    /\ RunReturns
    /\ max_num_processes = 1
    /\ Cardinality(Below) = 3
    /\ \A t \in Below : Did(t, "exit")

\* Worker w asks the unit it has entered wanna_reuse() in this step, and
\* the answer is yes.
WorkerAsks(w) ==
    /\ w # Main
    /\ At(w, "entered")
    /\ Len(stack[w]) = 1
    /\ Running(w)'
    /\ stack'[w] # stack[w]
WorkerAnsweredYes(w) == stack'[w][1].ph = "reuse"
NoFailureYet == ~kill_requested /\ \A t \in Below : ~Failed(t)

\* C28: in a parallel run without failures whether a child is reused depends
\* only on the chain's flag when the pool was created and on the child's own
\* markers and stored result, whichever worker runs it and whatever that
\* worker has run before.
C28_DecisionIgnoresSiblings ==
    [][\A w \in Procs :
          WorkerAsks(w) /\ NoFailureYet =>
             (WorkerAnsweredYes(w) <=>
                 wanna_reuse(Unit(w), start_reuse[parent_chain(w)]))]_vars

\* The parent leaves its loop in this step before it has handled every
\* completion.
LeavesLoopEarly ==
    /\ At(Main, "drain")
    /\ pool[Main].got < pool[Main].n
    /\ ~At(Main, "drain")'

\* C29: when the parent's loop over the completions is ended by a
\* KeyboardInterrupt (as when it is ended by the cancellation flag), the
\* whole process group is terminated: no worker is left, and run() never
\* returns.
C29_ParentInterruptKillsGroup ==
    /\ [][/\ LeavesLoopEarly => GroupKilled'
          /\ Killed => Killed']_vars
    /\ [](Killed =>
             /\ \A w \in Procs \ {Main} : pstate[w] = "unborn" /\ stack[w] = <<>>
             /\ \A p \in Procs : pool[p] = NoPool)

\* The group has been killed without any worker having set the flag, while
\* a tool was being executed.
C29_Witness ==
    /\ GroupKilled
    /\ ~kill_requested
    /\ \E t \in Tools : CutOff(t)
    /\ \E t \in Tools : Did(t, "load")

----------------------------------------------------------------------------
(* Parallel chains with settings.can_go_parallel() false: trees 4 and 8 *)

OffTrees == {4, 8}
InitOff == InitWith(OffTrees, FALSE, {1, 2})
NextOff ==
    \/ StartRun
    \/ NewProcessPar
    \/ RunAgain
    \/ ProgramReturn
    \/ ProgramRaise
    \/ \E p \in Procs :
          \/ Acquire(p)
          \/ Enter(p)
          \/ Decide(p)
          \/ Reuse(p)
          \/ Starting(p)
          \/ RunTool(p)
          \/ RunChain(p)
          \/ Caught(p)
          \/ Finished(p)
          \/ Exit(p)
          \/ ExitRaise(p)
SpecOff == InitOff /\ [][NextOff]_vars

\* The children of chain c, as the calling process holds them.
KidsOf(c) == mem[Main].ch[c].tool_chain
\* run() of node 1 has returned to the program.
TopReturned == pstate[Main] = "done"

\* C27: with parallel execution disabled, run() of a ToolChainParallel does
\* what ToolChain.run() does. No pool is created, no worker is forked and no
\* permit is taken; the children are entered by the calling process in the
\* declared order, each after its predecessor's exit; every reuse decision
\* is wanna_reuse(chain flag) as in ToolChain._run_tool, and a cacheable
\* child that is not reused clears the flag; when run() has returned the flag
\* is true exactly if it was true before and every cacheable tool was
\* reused, and every tool that was executed has left the marker, and the
\* stored result, that Tool.finished() writes.
C27_DisabledIsSequential ==
    /\ [](/\ \A p \in Procs : pool[p] = NoPool
          /\ \A w \in Procs \ {Main} : pstate[w] = "unborn" /\ stack[w] = <<>>
          /\ cpu_semaphore = cpu_semaphore_init
          /\ \A c \in Chains : \A i \in 1..(Len(KidsOf(c)) - 1) :
                ev[KidsOf(c)[i + 1]] # {} => Did(KidsOf(c)[i], "exit")
          /\ TopReturned =>
                /\ mem[Main].reuse[Top] <=>
                      (start_reuse[Top] /\ \A t \in CacheableTools : Did(t, "reuse"))
                /\ \A t \in Tools :
                      /\ Did(t, "exit") /\ ~Failed(t)
                      /\ Did(t, "finished") =>
                            /\ Tool_finished_marker(t, mem[Main].result[t]) \in logs
                            /\ IsWrapper(mem[Main].result[t]) => store[t])
    /\ [][AsksWannaReuse =>
             LET t == CurTool(Main)
                 c == TopFrame(Main).c
             IN  /\ AnsweredYes <=> wanna_reuse(t, mem[Main].reuse[c])
                 /\ ~AnsweredYes /\ exc'[Main] = NoExc =>
                       mem'[Main].reuse[c] = (mem[Main].reuse[c] /\ ~can_reuse(t))]_vars

\* run() of the parallel chain of tree 4 has returned in a second program
\* that reused X and Y and executed Z, the flag still true.
C27_Witness ==
    /\ sc = 4
    /\ TopReturned
    /\ run_no = 2
    /\ Did(2, "reuse") /\ Did(3, "reuse") /\ Did(4, "finished")
    /\ mem[Main].reuse[Top]

----------------------------------------------------------------------------
(* The stack of entered nodes, checked under Spec *)

\* The places of _run_tool at which `with tool` has been entered and not
\* yet left.
InsideWith == {"entered", "reuse", "starting", "run", "running", "drain",
               "finish", "caught", "raise", "exit"}
\* The places at which one of the five lifecycle methods of the tool is
\* about to be called, or run() of a chain is under way.
InLifecycle == {"entered", "reuse", "starting", "run", "running", "finish"}
\* The nodes of the calls of _run_tool that process p is inside of,
\* outermost first.
EnteredFrames(p) ==
    SelectSeq(stack[p], LAMBDA f : f.c # 0 /\ f.ph \in InsideWith)
EnteredNodes(p) ==
    [k \in 1..Len(EnteredFrames(p)) |-> FrameTool(p, EnteredFrames(p)[k])]
\* The position of node t in the stack of entered nodes of p (0: absent).
PlaceOf(p, t) ==
    IF \E k \in 1..Len(mem[p].tool_stack) : mem[p].tool_stack[k] = t
    THEN CHOOSE k \in 1..Len(mem[p].tool_stack) : mem[p].tool_stack[k] = t
    ELSE 0

\* C31: the stack of entered nodes is at every moment the nodes of the
\* calls of _run_tool under way, so it is after each call, however the call
\* ends, what it was before; while a lifecycle method of a child executes
\* the child is the innermost entry; the stack is empty when run() of node
\* 1 is over; and a Tool's cwd, logfile and logfile_res are set while it is
\* entered and None otherwise.
C31_StackDiscipline ==
    /\ mem[Main].tool_stack = EnteredNodes(Main)
    /\ \A k \in 1..Len(stack[Main]) :
          LET f == stack[Main][k]
          IN  f.c # 0 /\ f.ph \in InLifecycle /\ k = Len(stack[Main]) =>
                 /\ mem[Main].tool_stack # <<>>
                 /\ mem[Main].tool_stack[Len(mem[Main].tool_stack)] = FrameTool(Main, f)
    /\ pstate[Main] \in {"ready", "done", "failed"} => mem[Main].tool_stack = <<>>
    /\ \A t \in Tools :
          mem[Main].refs[t] =
             IF PlaceOf(Main, t) = 0 THEN NoRefs
             ELSE Tool_enter_refs(SubSeq(mem[Main].tool_stack, 1, PlaceOf(Main, t)), t)

\* The body of a leaf three chains deep has failed, the exception has left
\* run() of node 1, and the stack is empty again.
C31_Witness ==
    /\ sc = 2
    /\ pstate[Main] = "failed"
    /\ BodyRaised(4)
    /\ Did(2, "exit") /\ Did(3, "exit") /\ Did(4, "exit")
    /\ mem[Main].tool_stack = <<>>

----------------------------------------------------------------------------
(* The order of the children, checked under Spec *)

\* The calling process enters a child in this step: the chain and the
\* child's place in it.
EntersChild == At(Main, "call") /\ At(Main, "entered")'
Open(t) == Did(t, "enter") /\ ~Did(t, "exit")
\* run() of chain c has returned in this run.
RunReturned(c) == IF c = Top THEN pstate[Main] = "done" ELSE Did(c, "finished")
RunOver(c) == IF c = Top THEN pstate[Main] \in {"done", "failed"} ELSE Did(c, "exit")

InDeclaredOrder ==
    /\ [][EntersChild =>
             LET c == TopFrame(Main).c
                 i == TopFrame(Main).i
             IN  /\ ev[Kids(c)[i]] = {}
                 /\ \A j \in 1..Len(Kids(c)) :
                       /\ j < i => Did(Kids(c)[j], "exit")
                       /\ j > i => ev[Kids(c)[j]] = {}]_vars
    /\ [](/\ \A c \in Chains : \A i, j \in 1..Len(Kids(c)) :
                i # j => ~(Open(Kids(c)[i]) /\ Open(Kids(c)[j]))
          /\ \A w \in Procs \ {Main} : pstate[w] = "unborn" /\ stack[w] = <<>>)

\* C32 (as stated): the children of a chain are entered in declared order
\* by the calling process, child i+1 not before child i has exited, and in
\* every run of the chain each child is entered exactly once.
C32_EachChildOncePerRun ==
    /\ InDeclaredOrder
    /\ [](\A c \in Chains : RunOver(c) /\ Did(c, "run") =>
             \A i \in 1..Len(Kids(c)) : Did(Kids(c)[i], "enter"))

\* C32 (as amended): ... and no child is entered twice in a run; in a run
\* of the chain that returns each child has been entered, and has exited.
C32_EachChildOncePerReturnedRun ==
    /\ InDeclaredOrder
    /\ [](\A c \in Chains : RunReturned(c) /\ (c = Top \/ Did(c, "run")) =>
             \A i \in 1..Len(Kids(c)) :
                Did(Kids(c)[i], "enter") /\ Did(Kids(c)[i], "exit"))

\* The second run of the flat chain has returned, with A reused and B
\* executed, every child entered and exited.
C32_Witness ==
    /\ sc = 1
    /\ run_no = 2
    /\ pstate[Main] = "done"
    /\ Did(2, "reuse") /\ Did(3, "finished")
    /\ \A t \in {2, 3, 4} : Did(t, "exit")

----------------------------------------------------------------------------
(* The reuse flag across nested chains, checked under SpecAnyDisk *)

Plain(t) == Kind(t) = "ToolChain"
\* The nodes below chain t, and those of them that no chain other than a
\* plain ToolChain lies above.
RECURSIVE Descendants(_)
Descendants(t) ==
    UNION {{Kids(t)[i]} \cup Descendants(Kids(t)[i]) : i \in 1..Len(Kids(t))}
RECURSIVE PlainDescendants(_)
PlainDescendants(t) ==
    UNION {{Kids(t)[i]} \cup (IF Plain(Kids(t)[i])
                              THEN PlainDescendants(Kids(t)[i]) ELSE {}) :
              i \in 1..Len(Kids(t))}
Executed(x) == Did(x, "starting") /\ ~Did(x, "reuse")
\* A plain chain is asked wanna_reuse() and is not reused; finished() of a
\* plain chain returns.
StartsNested ==
    AsksWannaReuse /\ Plain(CurTool(Main)) /\ ~AnsweredYes /\ exc'[Main] = NoExc
FinishesNested ==
    /\ At(Main, "finish")
    /\ TopFrame(Main).c # 0
    /\ Plain(CurTool(Main))
    /\ stack'[Main] # stack[Main]

\* The flag goes down into a nested plain chain and comes back up.
FlagThroughNesting ==
    [][/\ StartsNested =>
             /\ mem'[Main].reuse[CurTool(Main)] = mem[Main].reuse[TopFrame(Main).c]
             /\ mem'[Main].reuse[TopFrame(Main).c] = mem[Main].reuse[TopFrame(Main).c]
       /\ FinishesNested =>
             mem'[Main].reuse[TopFrame(Main).c] = mem[Main].reuse[CurTool(Main)]]_vars

\* C33 (as stated): a nested plain chain starts with its parent's flag and
\* hands its final flag back; a cacheable tool executed anywhere inside a
\* nested chain prevents the reuse of every later sibling of that chain, and
\* a chain that starts with the flag false reuses nothing anywhere inside.
C33_NestedFlagAnywhere ==
    /\ FlagThroughNesting
    /\ [](\A c \in Chains : \A i, j \in 1..Len(Kids(c)) :
             /\ i < j
             /\ Plain(Kids(c)[i])
             /\ \E x \in Descendants(Kids(c)[i]) : can_reuse(x) /\ Executed(x)
             => ~Did(Kids(c)[j], "reuse"))
    /\ [](\A t \in Chains :
             Did(t, "run") /\ ~start_reuse[t] =>
                \A x \in Descendants(t) : ~Did(x, "reuse"))

\* C33 (as amended): the same for the tools that only plain chains separate
\* from the nested chain; what lies inside a ToolChainIndie below it is not
\* bound by the flag.
C33_NestedFlagThroughPlain ==
    /\ FlagThroughNesting
    /\ [](\A c \in Chains : \A i, j \in 1..Len(Kids(c)) :
             /\ i < j
             /\ Plain(Kids(c)[i])
             /\ \E x \in PlainDescendants(Kids(c)[i]) : can_reuse(x) /\ Executed(x)
             => ~Did(Kids(c)[j], "reuse"))
    /\ [](\A t \in Chains :
             Did(t, "run") /\ ~start_reuse[t] /\ (Plain(t) \/ t = Top) =>
                \A x \in PlainDescendants(t) : ~Did(x, "reuse"))

\* The flag was true at the start, Leaf was reused, D inside the nested
\* chain was executed, and E, whose marker and result exist, is not reused.
C33_Witness ==
    /\ sc = 2
    /\ start_reuse[Top]
    /\ Did(4, "reuse")
    /\ Did(5, "finished") /\ Executed(5)
    /\ At(Main, "starting") /\ CurTool(Main) = 6
    /\ logfile_res(6) \in logs /\ store[6]

----------------------------------------------------------------------------
(* ToolChainIndie, checked under SpecAnyDisk *)

Indie(t) == Kind(t) = "ToolChainIndie"
Inside(t) == \E k \in 1..Len(mem[Main].tool_stack) : mem[Main].tool_stack[k] = t
\* The calling process takes a step at the given place of _run_tool for an
\* Indie chain.
IndieStep(ph) ==
    /\ At(Main, ph)
    /\ TopFrame(Main).c # 0
    /\ Indie(CurTool(Main))
    /\ stack'[Main] # stack[Main]

IndieFrame ==
    [][/\ IndieStep("starting") => mem'[Main].reuse[CurTool(Main)]
       /\ AsksWannaReuse /\ Indie(TopFrame(Main).c) /\ TopFrame(Main).i = 1 =>
             /\ mem[Main].reuse[TopFrame(Main).c]
             /\ AnsweredYes <=> wanna_reuse(CurTool(Main), TRUE)
       /\ IndieStep("finish") =>
             /\ mem'[Main].reuse[CurTool(Main)] = mem[Main].reuse[TopFrame(Main).c]
             /\ mem'[Main].reuse[TopFrame(Main).c] = mem[Main].reuse[TopFrame(Main).c]
       /\ \A t \in Chains :
             Indie(t) /\ Inside(t) =>
                mem'[Main].reuse[ParentOf(t)] = mem[Main].reuse[ParentOf(t)]]_vars

\* C34 (as stated): an Indie chain runs with its flag forced to true, so
\* its first child decides with all_reused_before_me = true; whenever it is
\* left it has the flag it was given again; and from its entry to its exit
\* the parent's flag does not change, whatever its children did.
C34_IndieRestoresOnExit ==
    /\ IndieFrame
    /\ [][IndieStep("raise") =>
             mem'[Main].reuse[CurTool(Main)] = mem[Main].reuse[TopFrame(Main).c]]_vars

\* C34 (as amended): the flag it was given is put back by finished(), that
\* is when the Indie chain's run() has returned.
C34_IndieRestoresWhenFinished == IndieFrame

\* The Indie chain has finished with the parent's flag true although its
\* child was executed.
C34_Witness ==
    /\ sc = 2
    /\ Did(3, "finished") /\ Did(3, "exit")
    /\ Executed(4) /\ Did(4, "finished")
    /\ mem[Main].reuse[2]
    /\ mem[Main].reuse[3]
    /\ At(Main, "call") /\ CurTool(Main) = 5

----------------------------------------------------------------------------
(* The hooks of ToolChainVanilla, checked under SpecVanilla *)

Calls == mem[Main].calls
Rank(e) ==
    CASE e.call = "snapshot" -> 1
      [] e.call = "prepare_for_systematic" -> 2
      [] e.call = "reset" -> 3
      [] e.call = "_run_tool" -> 4
      [] e.call = "finish_with_systematic" -> 5
      [] e.call = "restore" -> 6
Count(name) == Cardinality({i \in DOMAIN Calls : Calls[i].call = name})
CalledFor(name, k) == \E i \in DOMAIN Calls : Calls[i] = Call(name, k)
\* The children of the ToolChainVanilla the calls belong to.
VanillaKids ==
    LET ts == mem[Main].ch[Calls[1].node].tool_chain
    IN  {ts[i] : i \in DOMAIN ts}

HookOrder ==
    Calls # <<>> =>
       /\ Calls[1].call = "snapshot"
       /\ \A i, j \in DOMAIN Calls : i < j => Rank(Calls[i]) <= Rank(Calls[j])
       /\ \A name \in {"snapshot", "prepare_for_systematic",
                       "finish_with_systematic", "restore"} : Count(name) <= 1
       /\ Count("_run_tool") > 0 =>
             /\ Count("prepare_for_systematic") = 1
             /\ \A k \in VanillaKids : CalledFor("reset", k)
       /\ Count("finish_with_systematic") > 0 =>
             /\ Count("prepare_for_systematic") = 1
             /\ \A k \in VanillaKids : CalledFor("_run_tool", k)
HookAfterRun ==
    [][Count("finish_with_systematic")' > Count("finish_with_systematic") =>
          /\ At(Main, "finish")
          /\ Kind(CurTool(Main)) = "ToolChainVanilla"]_vars

----------------------------------------------------------------------------
(* The 'result available' marker and the ResultStore, checked under Spec *)

\* finished() of tool t returns in the calling process.
FinishesTool(t) ==
    /\ At(Main, "finish")
    /\ TopFrame(Main).c # 0
    /\ CurTool(Main) = t
    /\ stack'[Main] # stack[Main]

\* C36: whenever finished() of a tool with can_reuse = true leaves the
\* 'result available' marker, the same call has written the tool's result
\* to the ResultStore, so that wanna_reuse(True) is answered true from then
\* on.
C36_ResultMarkerMeansStored ==
    [][\A t \in CacheableTools :
          FinishesTool(t) /\ logfile_res(t) \in logs' =>
             /\ Tool_finished_writes(Tool_finished_result(mem[Main].result[t]))
             /\ store'[t]
             /\ Tool_wanna_reuse(t, TRUE)']_vars

\* reuse() of tool t returns in the calling process.
ReusesTool(t) ==
    /\ At(Main, "reuse")
    /\ CurTool(Main) = t
    /\ stack'[Main] # stack[Main]
\* The last execution of t that finished left the 'no result' marker.
LatestWasEmpty(t) == logfile(t) \in logs /\ logfile_res(t) \notin logs

\* C37: a tool with can_reuse = true whose latest finished execution had an
\* empty result holds no result that is not empty when its reuse() returns.
C37_ReuseLoadsLatest ==
    [][\A t \in CacheableTools :
          ReusesTool(t) /\ LatestWasEmpty(t) =>
             ~Truthy(mem'[Main].result[t])]_vars

====
